---------------------------- MODULE Spec2Model ----------------------------
(***************************************************************************)
(* A model of the invoice generator: the Persistence Store (localStorage   *)
(* helpers), the Usage Limiter (AIPrompt), the Invoice Model with its      *)
(* computed totals, and the Draft/History controller of the Alpine         *)
(* component `invoiceApp`.                                                 *)
(*                                                                         *)
(* Conventions                                                             *)
(*  - a JS value that may be null is a sequence of length 0 (null) or 1;   *)
(*  - a JS string is a sequence of one-character strings, so that          *)
(*    truthiness, trim and parseFloat are computed and not assumed;        *)
(*  - a form value (quantity, price, discount value, tax rate) is a record *)
(*    [t, n, s]: a number n, a string s, or null;                          *)
(*  - money is an integer count of 1/Unit, Unit = 10000: with integer      *)
(*    inputs every "/ 100" of the getters is exact (the dividend is a      *)
(*    multiple of 100, and is divided before it is multiplied to stay in   *)
(*    TLC's 32-bit integers), so the arithmetic of the model is the        *)
(*    real-number arithmetic of the code; floating-point rounding is not   *)
(*    modelled;                                                            *)
(*  - a calendar date is <<d>> with d a day count, '' is <<>>;             *)
(*  - each browser tab is one entry of `win`; the store is shared.         *)
(***************************************************************************)
EXTENDS Integers, Sequences, FiniteSets, TLC

VARIABLES
    now,            \* the wall clock, in milliseconds (Date.now())
    today,          \* the calendar day of the wall clock
    localStorage,   \* the browser's key-value store, one field per key
    win,            \* per tab: the Alpine component's state and its timers
    lastOp,         \* history variable: the operation that ran last, and
                    \* (pre) what it found: the length of the history, the
                    \* prompts remaining, ... as each action says
    mutatedAt       \* history variable, per tab: the instant of the most
                    \* recent write to a watched field, null before the first

vars == <<now, today, localStorage, win, lastOp, mutatedAt>>

-----------------------------------------------------------------------------
(* Bounds of the model *)

MaxClock == 3000
MaxItems == 2
MaxHistoryClock == 52
MaxUsageDay == 3
MaxDay == 1
MaxPickClock == 4
MaxSnapshots == 2
MaxFailClock == 3
MaxSnapClock == 1000
MaxUsageCount == 6
TickStep == 500

-----------------------------------------------------------------------------
(* JS values *)

Null == <<>>
Some(v) == <<v>>
IsNull(o) == Len(o) = 0
Val(o) == o[1]

Num(n) == [t |-> "num", n |-> n, s |-> <<>>]
Str(s) == [t |-> "str", n |-> 0, s |-> s]
NullVal == [t |-> "null", n |-> 0, s |-> <<>>]

Unit == 100 * 100

Max(a, b) == IF a >= b THEN a ELSE b

Digits == {"0", "1", "2", "3", "4", "5", "6", "7", "8", "9"}

DigitValue(c) ==
    CASE c = "0" -> 0 [] c = "1" -> 1 [] c = "2" -> 2 [] c = "3" -> 3
      [] c = "4" -> 4 [] c = "5" -> 5 [] c = "6" -> 6 [] c = "7" -> 7
      [] c = "8" -> 8 [] c = "9" -> 9

RECURSIVE SkipSpaces(_)
SkipSpaces(s) ==
    IF Len(s) > 0 /\ Head(s) = " " THEN SkipSpaces(Tail(s)) ELSE s

RECURSIVE LeadingDigits(_)
LeadingDigits(s) ==
    IF Len(s) > 0 /\ Head(s) \in Digits
    THEN <<Head(s)>> \o LeadingDigits(Tail(s))
    ELSE <<>>

RECURSIVE DigitsToInt(_)
DigitsToInt(ds) ==
    IF Len(ds) = 0 THEN 0
    ELSE 10 * DigitsToInt(SubSeq(ds, 1, Len(ds) - 1)) + DigitValue(ds[Len(ds)])

(* parseFloat of a string: leading white space is skipped, then an optional
   sign and the longest run of digits are read; what follows is ignored.
   No digit: NaN, here Null.  (Fractions and exponents are outside the
   alphabet of the model.) *)
ParseFloatStr(s) ==
    LET t == SkipSpaces(s)
        signed == Len(t) > 0 /\ Head(t) \in {"-", "+"}
        body == IF signed THEN Tail(t) ELSE t
        ds == LeadingDigits(body)
    IN  IF Len(ds) = 0 THEN Null
        ELSE Some((IF signed /\ Head(t) = "-" THEN -1 ELSE 1) * DigitsToInt(ds))

(* parseFloat(v): a number is converted to its decimal string and read back,
   null reads as "null", which has no digit. *)
ParseFloat(v) ==
    CASE v.t = "num" -> Some(v.n)
      [] v.t = "str" -> ParseFloatStr(v.s)
      [] v.t = "null" -> Null

(* parseFloat(v) || 0 *)
ParseFloatOrZero(v) ==
    LET p == ParseFloat(v) IN IF IsNull(p) \/ Val(p) = 0 THEN 0 ELSE Val(p)

-----------------------------------------------------------------------------
(* The computed values of the Invoice Model (getters of invoiceApp) *)

RECURSIVE SumItems(_)
SumItems(its) ==
    IF Len(its) = 0 THEN 0
    ELSE SumItems(SubSeq(its, 1, Len(its) - 1))
         + ParseFloatOrZero(its[Len(its)].quantity)
           * ParseFloatOrZero(its[Len(its)].price) * Unit

subtotal(a) == SumItems(a.items)

(* Variant: the discount type is ignored *)
discountAmount_AlwaysFixed(a) == ParseFloatOrZero(a.discount.value) * Unit

discountAmount(a) ==
    LET value == ParseFloatOrZero(a.discount.value) IN
    IF a.discount.type = "percentage"
    THEN (subtotal(a) \div 100) * value
    ELSE value * Unit

(* Variant: without Math.max(0, ...) *)
subtotalAfterDiscount_NoClamp(a) == subtotal(a) - discountAmount(a)

subtotalAfterDiscount(a) == Max(0, subtotal(a) - discountAmount(a))

taxAmount(a) == (subtotalAfterDiscount(a) \div 100) * ParseFloatOrZero(a.taxRate)

(* Variant: the tax is added to the subtotal before the discount *)
total_BeforeDiscount(a) == subtotal(a) + taxAmount(a)

total(a) == subtotalAfterDiscount(a) + taxAmount(a)

-----------------------------------------------------------------------------
(* The Persistence Store: localStorage behind Storage.get/set/remove.  A key
   that is absent holds Null; a present key holds Some(parsed value).  The
   argument ok of a write is the outcome of the localStorage call: FALSE is
   the exception (quota, serialisation) that the try/catch swallows. *)

STORAGE_KEYS ==
    [BUSINESS_INFO |-> "invoiceApp_businessInfo",
     PREFERENCES |-> "invoiceApp_preferences",
     PADDLE_CUSTOMER |-> "invoiceApp_paddleCustomer",
     DRAFT |-> "invoiceApp_draft",
     HISTORY |-> "invoiceApp_history"]

AI_STORAGE_KEY == "invoiceApp_aiUsage"

MAX_HISTORY_ITEMS == 50

FREE_DAILY_LIMIT == 3

EmptyStore ==
    [invoiceApp_businessInfo |-> Null,
     invoiceApp_preferences |-> Null,
     invoiceApp_paddleCustomer |-> Null,
     invoiceApp_draft |-> Null,
     invoiceApp_history |-> Null,
     invoiceApp_aiUsage |-> Null]

(* {...a, ...b} *)
Merge(a, b) ==
    [k \in (DOMAIN a) \cup (DOMAIN b) |-> IF k \in DOMAIN b THEN b[k] ELSE a[k]]

(* A stored string that JSON.parse rejects; a cell of the store is Null
   (no item), Some(v) (the JSON text of v) or Unparsable. *)
Unparsable == <<"not", "JSON">>

(* get: JSON.parse throws on an unparsable item, the catch returns null *)
Storage_get(store, key) ==
    IF store[key] = Unparsable THEN Null ELSE store[key]

(* Variant: a failed setItem loses the item *)
Storage_set_FailureClearsKey(store, key, value, ok) ==
    [store EXCEPT ![key] = IF ok THEN Some(value) ELSE Null]

(* set: ok is FALSE when JSON.stringify or setItem throws; the store is then
   as it was, and the catch returns false. *)
Storage_set(store, key, value, ok) ==
    IF ok THEN [store EXCEPT ![key] = Some(value)] ELSE store

Storage_set_returns(store, key, value, ok) == ok

(* remove: ok is FALSE when removeItem throws *)
Storage_remove(store, key, ok) ==
    IF ok THEN [store EXCEPT ![key] = Null] ELSE store

Storage_remove_returns(store, key, ok) == ok

EmptyText == <<>>

DefaultBusiness ==
    [name |-> EmptyText, email |-> EmptyText, phone |-> EmptyText,
     address |-> EmptyText, logo |-> Null]

DefaultPreferences ==
    [currency |-> "USD", taxRate |-> Num(0), template |-> "classic"]

Storage_getBusinessInfo(store) ==
    LET v == Storage_get(store, STORAGE_KEYS.BUSINESS_INFO)
    IN  IF IsNull(v) THEN DefaultBusiness ELSE Val(v)

Storage_setBusinessInfo(store, info, ok) ==
    Storage_set(store, STORAGE_KEYS.BUSINESS_INFO, info, ok)

Storage_getPreferences(store) ==
    LET v == Storage_get(store, STORAGE_KEYS.PREFERENCES)
    IN  IF IsNull(v) THEN DefaultPreferences ELSE Val(v)

Storage_setPreferences(store, prefs, ok) ==
    Storage_set(store, STORAGE_KEYS.PREFERENCES, prefs, ok)

Storage_getPaddleCustomer(store) == Storage_get(store, STORAGE_KEYS.PADDLE_CUSTOMER)

Storage_getDraft(store) == Storage_get(store, STORAGE_KEYS.DRAFT)

Storage_setDraft(store, draft, t, ok) ==
    Storage_set(store, STORAGE_KEYS.DRAFT, Merge(draft, [savedAt |-> t]), ok)

(* Variant: the wrong key is removed *)
Storage_clearDraft_WrongKey(store, ok) == Storage_remove(store, STORAGE_KEYS.HISTORY, ok)

Storage_clearDraft(store, ok) == Storage_remove(store, STORAGE_KEYS.DRAFT, ok)

Storage_hasDraft(store) == ~IsNull(Storage_get(store, STORAGE_KEYS.DRAFT))

Storage_getHistory(store) ==
    LET v == Storage_get(store, STORAGE_KEYS.HISTORY)
    IN  IF IsNull(v) THEN <<>> ELSE Val(v)

(* An invoice number is either generated, INV-<year><month>-<3 digits>, kept
   as its month and its 3-digit draw, or text typed by the user. *)
GeneratedNumber(ym, rnd) == [ym |-> ym, rnd |-> rnd, txt |-> EmptyText]
TextNumber(txt) == [ym |-> -1, rnd |-> -1, txt |-> txt]
EmptyNumber == TextNumber(EmptyText)
UnknownNumber == TextNumber(<<"U", "n", "k", "n", "o", "w", "n">>)
UnknownClient ==
    <<"U", "n", "k", "n", "o", "w", "n", " ", "C", "l", "i", "e", "n", "t">>

(* The entry addToHistory builds; Date.now().toString() and
   new Date().toISOString() both name the instant t. *)
HistoryEntry(invoice, t) ==
    [id |-> t,
     savedAt |-> t,
     invoiceNumber |-> IF invoice.invoice.number = EmptyNumber
                       THEN UnknownNumber ELSE invoice.invoice.number,
     clientName |-> IF invoice.client.name = EmptyText
                    THEN UnknownClient ELSE invoice.client.name,
     total |-> invoice.total,
     currency |-> IF invoice.currency = "" THEN "USD" ELSE invoice.currency,
     data |-> invoice]

(* Variant: an entry of the same invoice number at the head is replaced *)
Storage_addToHistory_ReplacesSameNumber(store, invoice, t, ok) ==
    LET history == Storage_getHistory(store)
        entry == HistoryEntry(invoice, t)
        rest == IF Len(history) > 0 /\ history[1].invoiceNumber = entry.invoiceNumber
                THEN Tail(history) ELSE history
        unshifted == <<entry>> \o rest
        limited == IF Len(unshifted) > MAX_HISTORY_ITEMS
                   THEN SubSeq(unshifted, 1, Len(unshifted) - 1)
                   ELSE unshifted
    IN  Storage_set(store, STORAGE_KEYS.HISTORY, limited, ok)

(* Variant: push() instead of unshift() *)
Storage_addToHistory_Appends(store, invoice, t, ok) ==
    LET pushed == Storage_getHistory(store) \o <<HistoryEntry(invoice, t)>>
        limited == IF Len(pushed) > MAX_HISTORY_ITEMS
                   THEN SubSeq(pushed, 1, Len(pushed) - 1)
                   ELSE pushed
    IN  Storage_set(store, STORAGE_KEYS.HISTORY, limited, ok)

(* Variant: without the pop() at MAX_HISTORY_ITEMS *)
Storage_addToHistory_NoEviction(store, invoice, t, ok) ==
    Storage_set(store, STORAGE_KEYS.HISTORY,
                <<HistoryEntry(invoice, t)>> \o Storage_getHistory(store), ok)

Storage_addToHistory(store, invoice, t, ok) ==
    LET history == Storage_getHistory(store)
        unshifted == <<HistoryEntry(invoice, t)>> \o history
        limited == IF Len(unshifted) > MAX_HISTORY_ITEMS
                   THEN SubSeq(unshifted, 1, Len(unshifted) - 1)
                   ELSE unshifted
    IN  Storage_set(store, STORAGE_KEYS.HISTORY, limited, ok)

Storage_removeFromHistory(store, id, ok) ==
    LET history == Storage_getHistory(store)
        filtered == SelectSeq(history, LAMBDA item : item.id # id)
    IN  Storage_set(store, STORAGE_KEYS.HISTORY, filtered, ok)

Storage_clearHistory(store, ok) == Storage_remove(store, STORAGE_KEYS.HISTORY, ok)

(* history.find(item => item.id === id): the first match, or undefined *)
Storage_getHistoryItem(store, id) ==
    LET history == Storage_getHistory(store)
        hits == SelectSeq(history, LAMBDA item : item.id = id)
    IN  IF Len(hits) = 0 THEN Null ELSE Some(hits[1])

(* isPremium(): no record, a status other than 'active', or an expiry in the
   past mean not entitled. *)
isPremium(store, t) ==
    LET paddle == Storage_getPaddleCustomer(store) IN
    IF IsNull(paddle) THEN FALSE
    ELSE IF Val(paddle).status # "active" THEN FALSE
    ELSE IF ~IsNull(Val(paddle).expiresAt) /\ Val(Val(paddle).expiresAt) < t THEN FALSE
    ELSE TRUE

(* Variant: a record that is not past its expiry counts as active *)
checkSubscriptionStatus_IgnoresStatus(store, t, ok) ==
    LET customer == Storage_getPaddleCustomer(store) IN
    IF IsNull(customer) THEN [returned |-> FALSE, store |-> store]
    ELSE IF ~IsNull(Val(customer).expiresAt) /\ Val(Val(customer).expiresAt) < t
    THEN [returned |-> FALSE,
          store |-> Storage_set(store, STORAGE_KEYS.PADDLE_CUSTOMER,
                                [Val(customer) EXCEPT !.status = "expired"], ok)]
    ELSE [returned |-> TRUE, store |-> store]

(* PaddleHandler.checkSubscriptionStatus(): what it returns and the store it
   leaves; past its expiry the record is rewritten with status 'expired'. *)
checkSubscriptionStatus(store, t, ok) ==
    LET customer == Storage_getPaddleCustomer(store) IN
    IF IsNull(customer) THEN [returned |-> FALSE, store |-> store]
    ELSE IF ~IsNull(Val(customer).expiresAt) /\ Val(Val(customer).expiresAt) < t
    THEN [returned |-> FALSE,
          store |-> Storage_set(store, STORAGE_KEYS.PADDLE_CUSTOMER,
                                [Val(customer) EXCEPT !.status = "expired"], ok)]
    ELSE [returned |-> Val(customer).status = "active", store |-> store]

-----------------------------------------------------------------------------
(* The Usage Limiter (AIPrompt): a daily counter under AI_STORAGE_KEY *)

AIPrompt_getUsage(store) ==
    LET stored == store[AI_STORAGE_KEY]
    IN  IF IsNull(stored) THEN [date |-> Null, count |-> 0] ELSE Val(stored)

AIPrompt_setUsage(store, data, ok) ==
    IF ok THEN [store EXCEPT ![AI_STORAGE_KEY] = Some(data)] ELSE store

AIPrompt_getTodayString(d) == Some(d)

AIPrompt_getRemainingPrompts(store, d) ==
    LET usage == AIPrompt_getUsage(store)
        tdy == AIPrompt_getTodayString(d)
    IN  IF usage.date # tdy THEN FREE_DAILY_LIMIT
        ELSE Max(0, FREE_DAILY_LIMIT - usage.count)

(* Variant: the count is not reset when the date changed *)
AIPrompt_incrementUsage_NoReset(store, d, ok) ==
    AIPrompt_setUsage(store, [date |-> AIPrompt_getTodayString(d),
                              count |-> AIPrompt_getUsage(store).count + 1], ok)

AIPrompt_incrementUsage(store, d, ok) ==
    LET usage == AIPrompt_getUsage(store)
        tdy == AIPrompt_getTodayString(d)
    IN  IF usage.date # tdy
        THEN AIPrompt_setUsage(store, [date |-> tdy, count |-> 1], ok)
        ELSE AIPrompt_setUsage(store, [date |-> tdy, count |-> usage.count + 1], ok)

AIPrompt_canUsePrompt(store, d, premium) ==
    IF premium THEN TRUE ELSE AIPrompt_getRemainingPrompts(store, d) > 0

-----------------------------------------------------------------------------
(* The Alpine component invoiceApp.  A handler is an operator from the
   component's state a (and the store) to the state after it returned;
   handlers that write the store return Outcome(app, store). *)

SAVE_DELAY == 1000

DUE_DAYS == 30

Outcome(a, store) == [app |-> a, store |-> store]

(* JS truthiness of a form value *)
Truthy(v) ==
    CASE v.t = "num" -> v.n # 0
      [] v.t = "str" -> Len(v.s) > 0
      [] v.t = "null" -> FALSE

BlankItem == [description |-> EmptyText, quantity |-> Num(1), price |-> Num(0)]

DefaultClient == [name |-> EmptyText, email |-> EmptyText, address |-> EmptyText]

DefaultDiscount == [type |-> "percentage", value |-> Num(0)]

(* The object literal of Alpine.data('invoiceApp'), built on day d; timers
   is the tab's set of pending setTimeout callbacks of the auto-save, and
   pdfGenerating is the page's PDFGenerator.generating, pdfWatermark the
   addWatermark argument of the generate call that is running, renderings
   the number of generate calls that are past the flag test and have not
   returned, and download the document pdf.save last handed to the browser.
   mayPrompt holds while the page's last canUsePrompt(false) returned true
   and its incrementUsage has not yet followed. *)
NewApp(d) ==
    [running |-> FALSE,
     isPremium |-> FALSE,
     isGeneratingPDF |-> FALSE,
     showPricingModal |-> FALSE,
     showHistoryModal |-> FALSE,
     showSuccessModal |-> FALSE,
     draftRestored |-> FALSE,
     lastSaved |-> Null,
     invoiceHistory |-> <<>>,
     business |-> DefaultBusiness,
     client |-> DefaultClient,
     invoice |-> [number |-> EmptyNumber, date |-> Some(d), dueDate |-> Null,
                  notes |-> EmptyText],
     items |-> <<BlankItem>>,
     currency |-> "USD",
     taxRate |-> Num(0),
     template |-> "classic",
     discount |-> DefaultDiscount,
     saveTimeout |-> Null,
     timers |-> {},
     pdfGenerating |-> FALSE,
     pdfWatermark |-> FALSE,
     renderings |-> 0,
     mayPrompt |-> FALSE,
     download |-> Null,
     logoReader |-> Null]

(* The calendar month of day d (months of 30 days) *)
MonthOf(d) == d \div 30

generateInvoiceNumber(d, rnd) == GeneratedNumber(MonthOf(d), rnd)

(* The fields saveDraft and saveToHistory serialise *)
DraftOf(a) ==
    [business |-> a.business,
     client |-> a.client,
     invoice |-> a.invoice,
     items |-> a.items,
     discount |-> a.discount,
     currency |-> a.currency,
     taxRate |-> a.taxRate]

(* Variant: the draft object lacks taxRate *)
saveDraft_OmitsTaxRate(a, store, t, ok) ==
    Outcome([a EXCEPT !.lastSaved = Some(t)],
            Storage_setDraft(store,
                             [k \in DOMAIN DraftOf(a) \ {"taxRate"} |-> DraftOf(a)[k]],
                             t, ok))

(* Variant: a draft that this component did not write is not overwritten *)
saveDraft_KeepsForeignDraft(a, store, t, ok) ==
    LET slot == Storage_getDraft(store) IN
    IF ~IsNull(slot) /\ Some(Val(slot).savedAt) # a.lastSaved
    THEN Outcome(a, store)
    ELSE Outcome([a EXCEPT !.lastSaved = Some(t)],
                 Storage_setDraft(store, DraftOf(a), t, ok))

saveDraft(a, store, t, ok) ==
    Outcome([a EXCEPT !.lastSaved = Some(t)],
            Storage_setDraft(store, DraftOf(a), t, ok))

(* setTimeout hands out an id no pending timer has *)
FreshTimerId(timers) ==
    CHOOSE i \in 1..(Cardinality(timers) + 1) :
        /\ \A tm \in timers : tm.id # i
        /\ \A j \in 1..(i - 1) : \E tm \in timers : tm.id = j

clearTimeout(timers, id) == {tm \in timers : Some(tm.id) # id}

(* Variant: without clearTimeout *)
debouncedSaveDraft_NoClear(a, t) ==
    LET id == FreshTimerId(a.timers)
    IN  [a EXCEPT !.timers = a.timers \cup {[id |-> id, due |-> t + SAVE_DELAY]},
                  !.saveTimeout = Some(id)]

debouncedSaveDraft(a, t) ==
    LET cleared == clearTimeout(a.timers, a.saveTimeout)
        id == FreshTimerId(cleared)
    IN  [a EXCEPT !.timers = cleared \cup {[id |-> id, due |-> t + SAVE_DELAY]},
                  !.saveTimeout = Some(id)]

loadDraft(a, draft) ==
    LET a1 == IF "business" \in DOMAIN draft
              THEN [a EXCEPT !.business = Merge(a.business, draft.business)] ELSE a
        a2 == IF "client" \in DOMAIN draft
              THEN [a1 EXCEPT !.client = Merge(a1.client, draft.client)] ELSE a1
        a3 == IF "invoice" \in DOMAIN draft
              THEN [a2 EXCEPT !.invoice = Merge(a2.invoice, draft.invoice)] ELSE a2
        a4 == IF "items" \in DOMAIN draft /\ Len(draft.items) > 0
              THEN [a3 EXCEPT !.items = draft.items] ELSE a3
        a5 == IF "discount" \in DOMAIN draft
              THEN [a4 EXCEPT !.discount = Merge(a4.discount, draft.discount)] ELSE a4
        a6 == IF "currency" \in DOMAIN draft /\ draft.currency # ""
              THEN [a5 EXCEPT !.currency = draft.currency] ELSE a5
    IN  IF "taxRate" \in DOMAIN draft
        THEN [a6 EXCEPT !.taxRate = draft.taxRate] ELSE a6

loadHistory(a, store) == [a EXCEPT !.invoiceHistory = Storage_getHistory(store)]

(* Variant: the number and due date are generated even when a draft was
   loaded *)
init_AlwaysGeneratesDefaults(a, store, t, d, rnd) ==
    LET prefs == Storage_getPreferences(store)
        a1 == [a EXCEPT !.isPremium = isPremium(store, t),
                        !.currency = IF prefs.currency # "" THEN prefs.currency
                                     ELSE "USD",
                        !.taxRate = IF Truthy(prefs.taxRate) THEN prefs.taxRate
                                    ELSE Num(0),
                        !.template = IF prefs.template # "" THEN prefs.template
                                     ELSE "classic"]
        draft == Storage_getDraft(store)
        a2 == IF ~IsNull(draft)
              THEN [loadDraft(a1, Val(draft)) EXCEPT !.draftRestored = TRUE]
              ELSE a1
        a3 == [a2 EXCEPT !.invoice.number = generateInvoiceNumber(d, rnd),
                         !.invoice.dueDate = Some(d + DUE_DAYS)]
    IN  [loadHistory(a3, store) EXCEPT !.running = TRUE]

(* init() of a freshly constructed component at instant t of day d; rnd is
   the draw of Math.random() in generateInvoiceNumber. *)
init(a, store, t, d, rnd) ==
    LET prefs == Storage_getPreferences(store)
        a1 == [a EXCEPT !.isPremium = isPremium(store, t),
                        !.currency = IF prefs.currency # "" THEN prefs.currency
                                     ELSE "USD",
                        !.taxRate = IF Truthy(prefs.taxRate) THEN prefs.taxRate
                                    ELSE Num(0),
                        !.template = IF prefs.template # "" THEN prefs.template
                                     ELSE "classic"]
        draft == Storage_getDraft(store)
        savedBusiness == Storage_getBusinessInfo(store)
        a2 == IF ~IsNull(draft)
              THEN [loadDraft(a1, Val(draft)) EXCEPT !.draftRestored = TRUE]
              ELSE [a1 EXCEPT
                      !.business = IF a1.isPremium /\ savedBusiness.name # EmptyText
                                   THEN Merge(a1.business, savedBusiness)
                                   ELSE a1.business,
                      !.invoice.number = generateInvoiceNumber(d, rnd),
                      !.invoice.dueDate = Some(d + DUE_DAYS)]
    IN  [loadHistory(a2, store) EXCEPT !.running = TRUE]

(* Variant: the draft is cleared before the confirmation is looked at *)
newInvoice_ClearsBeforeConfirm(a, store, confirmed, d, rnd, ok) ==
    IF ~confirmed THEN Outcome(a, Storage_clearDraft(store, ok))
    ELSE
      LET savedBusiness == Storage_getBusinessInfo(store)
          a1 == [a EXCEPT
                   !.business = IF a.isPremium /\ savedBusiness.name # EmptyText
                                THEN Merge(DefaultBusiness, savedBusiness)
                                ELSE DefaultBusiness,
                   !.client = DefaultClient,
                   !.invoice = [number |-> generateInvoiceNumber(d, rnd),
                                date |-> Some(d),
                                dueDate |-> Some(d + DUE_DAYS),
                                notes |-> EmptyText],
                   !.items = <<BlankItem>>,
                   !.discount = DefaultDiscount,
                   !.taxRate = Num(0),
                   !.draftRestored = FALSE]
      IN  Outcome(a1, Storage_clearDraft(store, ok))

newInvoice(a, store, confirmed, d, rnd, ok) ==
    IF ~confirmed THEN Outcome(a, store)
    ELSE
      LET savedBusiness == Storage_getBusinessInfo(store)
          a1 == [a EXCEPT
                   !.business = IF a.isPremium /\ savedBusiness.name # EmptyText
                                THEN Merge(DefaultBusiness, savedBusiness)
                                ELSE DefaultBusiness,
                   !.client = DefaultClient,
                   !.invoice = [number |-> generateInvoiceNumber(d, rnd),
                                date |-> Some(d),
                                dueDate |-> Some(d + DUE_DAYS),
                                notes |-> EmptyText],
                   !.items = <<BlankItem>>,
                   !.discount = DefaultDiscount,
                   !.taxRate = Num(0),
                   !.draftRestored = FALSE]
      IN  Outcome(a1, Storage_clearDraft(store, ok))

saveToHistory(a, store, t, ok) ==
    LET invoiceData == Merge(DraftOf(a), [total |-> total(a)])
        store1 == Storage_addToHistory(store, invoiceData, t, ok)
    IN  Outcome(loadHistory(a, store1), store1)

loadFromHistory(a, store, id) ==
    LET item == Storage_getHistoryItem(store, id) IN
    IF IsNull(item) THEN a
    ELSE [loadDraft(a, Val(item).data) EXCEPT !.showHistoryModal = FALSE]

(* Variant: the dates of the snapshot are kept *)
duplicateFromHistory_KeepsDates(a, store, id, d, rnd) ==
    LET item == Storage_getHistoryItem(store, id) IN
    IF IsNull(item) THEN a
    ELSE [loadDraft(a, Val(item).data) EXCEPT
            !.invoice.number = generateInvoiceNumber(d, rnd),
            !.showHistoryModal = FALSE]

duplicateFromHistory(a, store, id, d, rnd) ==
    LET item == Storage_getHistoryItem(store, id) IN
    IF IsNull(item) THEN a
    ELSE [loadDraft(a, Val(item).data) EXCEPT
            !.invoice.number = generateInvoiceNumber(d, rnd),
            !.invoice.date = Some(d),
            !.invoice.dueDate = Some(d + DUE_DAYS),
            !.showHistoryModal = FALSE]

deleteFromHistory(a, store, id, confirmed, ok) ==
    IF ~confirmed THEN Outcome(a, store)
    ELSE LET store1 == Storage_removeFromHistory(store, id, ok)
         IN  Outcome(loadHistory(a, store1), store1)

clearAllHistory(a, store, confirmed, ok) ==
    IF ~confirmed THEN Outcome(a, store)
    ELSE LET store1 == Storage_clearHistory(store, ok)
         IN  Outcome(loadHistory(a, store1), store1)

addItem(a) == [a EXCEPT !.items = Append(a.items, BlankItem)]

(* PDFGenerator.generate up to its first await: null at once when a
   generation is running, else the flag is set and the rendering is awaited *)
(* Variant: without the test of the generating flag *)
PDFGenerator_generate_NoGuard(a, addWatermark) ==
    [app |-> [a EXCEPT !.pdfGenerating = TRUE,
                       !.pdfWatermark = addWatermark,
                       !.renderings = @ + 1],
     returned |-> "pending"]

PDFGenerator_generate(a, addWatermark) ==
    IF a.pdfGenerating
    THEN [app |-> a, returned |-> "null"]
    ELSE [app |-> [a EXCEPT !.pdfGenerating = TRUE,
                            !.pdfWatermark = addWatermark,
                            !.renderings = @ + 1],
          returned |-> "pending"]

A4_WIDTH == 210
A4_HEIGHT == 297

(* imgHeight = (canvas.height * imgWidth) / canvas.width, in whole mm *)
ImgHeight(canvasWidth, canvasHeight) == (canvasHeight * A4_WIDTH) \div canvasWidth

(* The pagination loop: a document is the sequence of its pages, each with
   the position its image was added at and the number of footer lines
   stamped on it. *)
RECURSIVE PDF_addPages(_, _, _)
PDF_addPages(pdf, heightLeft, imgHeight) ==
    IF heightLeft > 0
    THEN PDF_addPages(Append(pdf, [position |-> heightLeft - imgHeight, footer |-> 0]),
                      heightLeft - A4_HEIGHT, imgHeight)
    ELSE pdf

PDFGenerator_paginate(imgHeight) ==
    PDF_addPages(<<[position |-> 0, footer |-> 0]>>, imgHeight - A4_HEIGHT, imgHeight)

(* Variant: without pdf.setPage(i), every text lands on the current page *)
PDFGenerator_addWatermark_NoSetPage(pdf) ==
    [pdf EXCEPT ![Len(pdf)].footer = @ + Len(pdf)]

(* addWatermark: for (i = 1; i <= pageCount; i++) setPage(i), text(...) *)
RECURSIVE PDF_stampFrom(_, _)
PDF_stampFrom(pdf, i) ==
    IF i <= Len(pdf)
    THEN PDF_stampFrom([pdf EXCEPT ![i].footer = @ + 1], i + 1)
    ELSE pdf

PDFGenerator_addWatermark(pdf) == PDF_stampFrom(pdf, 1)

(* The document generate hands to pdf.save *)
PDFGenerator_document(imgHeight, addWatermark) ==
    IF addWatermark
    THEN PDFGenerator_addWatermark(PDFGenerator_paginate(imgHeight))
    ELSE PDFGenerator_paginate(imgHeight)

(* The rest of PDFGenerator.generate: the document was saved (true) or an
   error was caught (false); finally the flag is cleared *)
PDFGenerator_settle(a, saved, imgHeight) ==
    [app |-> [a EXCEPT !.pdfGenerating = FALSE,
                       !.renderings = @ - 1,
                       !.download = IF saved
                                    THEN Some(PDFGenerator_document(imgHeight,
                                                                    a.pdfWatermark))
                                    ELSE @],
     returned |-> IF saved THEN "true" ELSE "false"]

(* downloadPDF after its await: the value generate returned is not looked at *)
downloadPDF_resume(a, returned) ==
    [a EXCEPT !.showSuccessModal = IF ~a.isPremium THEN TRUE ELSE @,
              !.isGeneratingPDF = FALSE]

(* Variant: the names are not checked *)
downloadPDF_NoNameCheck(a) ==
    IF a.isGeneratingPDF THEN a
    ELSE IF \A i \in 1..Len(a.items) : a.items[i].description = EmptyText THEN a
    ELSE LET call == PDFGenerator_generate([a EXCEPT !.isGeneratingPDF = TRUE],
                                           ~a.isPremium)
         IN  IF call.returned = "null"
             THEN downloadPDF_resume(call.app, call.returned)
             ELSE call.app

(* downloadPDF up to its await *)
downloadPDF(a) ==
    IF a.isGeneratingPDF THEN a
    ELSE IF a.business.name = EmptyText \/ a.client.name = EmptyText THEN a
    ELSE IF \A i \in 1..Len(a.items) : a.items[i].description = EmptyText THEN a
    ELSE LET call == PDFGenerator_generate([a EXCEPT !.isGeneratingPDF = TRUE],
                                           ~a.isPremium)
         IN  IF call.returned = "null"
             THEN downloadPDF_resume(call.app, call.returned)
             ELSE call.app

(* validateForm(): the messages of the fields that are blank after trim() *)
IsBlank(str) == \A i \in 1..Len(str) : str[i] = " "

validateForm(a) ==
    (IF IsBlank(a.business.name) THEN {"Business name is required"} ELSE {})
    \cup (IF IsBlank(a.client.name) THEN {"Client name is required"} ELSE {})
    \cup (IF IsBlank(a.invoice.number.txt) /\ a.invoice.number.rnd < 0
          THEN {"Invoice number is required"} ELSE {})
    \cup (IF \A i \in 1..Len(a.items) : IsBlank(a.items[i].description)
          THEN {"At least one line item is required"} ELSE {})

(* saveBusinessInfo(): the stored profile becomes the model's business *)
saveBusinessInfo(a, store, ok) ==
    IF ~a.isPremium
    THEN Outcome([a EXCEPT !.showPricingModal = TRUE], store)
    ELSE Outcome(a, Storage_setBusinessInfo(store, a.business, ok))

(* loadBusinessInfo(): a stored profile with a name is spread over business *)
loadBusinessInfo(a, store) ==
    IF ~a.isPremium
    THEN [a EXCEPT !.showPricingModal = TRUE]
    ELSE LET saved == Storage_getBusinessInfo(store) IN
         IF saved.name # EmptyText
         THEN [a EXCEPT !.business = Merge(a.business, saved)]
         ELSE a

(* handleLogoUpload(event): file is Null when no file was chosen, else its
   size in bytes, whether its type starts with image/, and its data URL.
   An accepted file starts a FileReader, whose onload sets the logo later. *)
handleLogoUpload(a, file) ==
    IF ~a.isPremium THEN [a EXCEPT !.showPricingModal = TRUE]
    ELSE IF IsNull(file) THEN a
    ELSE IF Val(file).size > 500 * 1024 THEN a
    ELSE IF ~Val(file).image THEN a
    ELSE [a EXCEPT !.logoReader = Some(Val(file).dataURL)]

(* reader.onload: this.business.logo = e.target.result *)
FileReader_onload(a) ==
    [a EXCEPT !.business.logo = a.logoReader, !.logoReader = Null]

savePreferences(a, store, ok) ==
    Outcome(a, Storage_setPreferences(store,
                   [currency |-> a.currency, taxRate |-> a.taxRate,
                    template |-> a.template], ok))

(* Variant: without the entitlement test *)
onCurrencyChange_NoGate(a, store, ok) == savePreferences(a, store, ok)

(* onCurrencyChange(): runs after x-model has written the chosen currency *)
onCurrencyChange(a, store, ok) ==
    IF ~a.isPremium /\ a.currency # "USD"
    THEN Outcome([a EXCEPT !.showPricingModal = TRUE, !.currency = "USD"], store)
    ELSE savePreferences(a, store, ok)

onTemplateChange(a, store, template, ok) ==
    IF ~a.isPremium /\ template # "classic"
    THEN Outcome([a EXCEPT !.showPricingModal = TRUE], store)
    ELSE savePreferences([a EXCEPT !.template = template], store, ok)

(* Variant: the row is removed whatever the length of the list *)
removeItem_NoGuard(a, index) ==
    [a EXCEPT !.items = SubSeq(a.items, 1, index - 1)
                        \o SubSeq(a.items, index + 1, Len(a.items))]

(* items.splice(index, 1), index counted from 1 here *)
removeItem(a, index) ==
    IF Len(a.items) > 1
    THEN [a EXCEPT !.items = SubSeq(a.items, 1, index - 1)
                             \o SubSeq(a.items, index + 1, Len(a.items))]
    ELSE a

-----------------------------------------------------------------------------
(* What the environment supplies *)

Tabs == {"A", "B"}

QuantityInputs == {Num(10), Str(<<>>), Str(<<"2", "x">>)}
PriceInputs == {Num(50), NullVal, Num(-5)}
DiscountTypes == {"percentage", "fixed"}
DiscountValueInputs == {Num(10), Num(600), Num(-20), Str(<<"x">>)}
TaxRateInputs == {Num(0), Num(8), Str(<<>>)}

Op(name, w) == [op |-> name, tab |-> w, pre |-> 0]
OpPre(name, w, pre) == [op |-> name, tab |-> w, pre |-> pre]

Succeeds == {TRUE}

NeverMutated == [w \in Tabs |-> Null]

(* A write of x-model to a watched field: the field changes and the $watch
   callback runs debouncedSaveDraft before control returns to the event loop.  A write
   of the value a field already holds triggers nothing.  lastOp.pre is the
   number of save timers the write found pending. *)
Watched(w, a, name, pre) ==
    /\ win[w].running
    /\ now + SAVE_DELAY <= MaxClock
    /\ win' = [win EXCEPT ![w] = debouncedSaveDraft(a, now)]
    /\ lastOp' = OpPre(name, w, pre)
    /\ mutatedAt' = [mutatedAt EXCEPT ![w] = Some(now)]
    /\ UNCHANGED <<now, today, localStorage>>

Mutate(w, a, name) ==
    /\ a # win[w]
    /\ Watched(w, a, name, Cardinality(win[w].timers))

SetItemQuantity(w) ==
    \E i \in 1..Len(win[w].items), v \in QuantityInputs :
        Mutate(w, [win[w] EXCEPT !.items[i].quantity = v], "edit")

SetItemPrice(w) ==
    \E i \in 1..Len(win[w].items), v \in PriceInputs :
        Mutate(w, [win[w] EXCEPT !.items[i].price = v], "edit")

SetDiscountType(w) ==
    \E ty \in DiscountTypes :
        Mutate(w, [win[w] EXCEPT !.discount.type = ty], "edit")

SetDiscountValue(w) ==
    \E v \in DiscountValueInputs :
        Mutate(w, [win[w] EXCEPT !.discount.value = v], "edit")

SetTaxRate(w) ==
    \E v \in TaxRateInputs :
        Mutate(w, [win[w] EXCEPT !.taxRate = v], "edit")

AddItem(w) ==
    /\ Len(win[w].items) < MaxItems
    /\ Mutate(w, addItem(win[w]), "addItem")

RemoveItem(w) ==
    \E i \in 1..Len(win[w].items) :
        Mutate(w, removeItem(win[w], i), "removeItem")

(* The draws of Math.random() * 1000 in generateInvoiceNumber *)
RandomDraws == {7, 42}

(* What the user may have typed into the form *)
BusinessNames == {EmptyText, <<"A", "c", "m", "e">>}
ClientNames == {EmptyText, <<"B", "o", "b">>}
NumberInputs == {Null, Some(TextNumber(<<"A", "-", "1">>))}
DueDateInputs == {Some(DUE_DAYS), Null}
ItemInputs ==
    {<<BlankItem>>,
     <<[description |-> <<"w", "o", "r", "k">>, quantity |-> Num(10), price |-> Num(50)],
       [description |-> EmptyText, quantity |-> Str(<<>>), price |-> NullVal]>>}

FormFills ==
    [businessName : BusinessNames, clientName : ClientNames,
     number : NumberInputs, dueDate : DueDateInputs, items : ItemInputs,
     discountType : DiscountTypes, taxRate : TaxRateInputs]

(* A tab opened at instant 0 of day 0 into which the user typed f; a number
   field left alone keeps the generated number. *)
FilledApp(store, rnd, f) ==
    LET a == init(NewApp(0), store, 0, 0, rnd) IN
    [a EXCEPT !.business.name = f.businessName,
              !.client.name = f.clientName,
              !.invoice.number = IF IsNull(f.number) THEN @ ELSE Val(f.number),
              !.invoice.dueDate = f.dueDate,
              !.items = f.items,
              !.discount.type = f.discountType,
              !.taxRate = f.taxRate]

(* The record handleCheckoutComplete stores for a subscription ending at t *)
ActiveCustomer(t) ==
    [customerId |-> Null, subscriptionId |-> Null, status |-> "active",
     plan |-> "monthly", expiresAt |-> Some(t), createdAt |-> 0]

(* The stores of earlier sessions: nothing stored; a free user's preferences
   saved while the tax rate was 8; a subscriber's preferences saved by
   onCurrencyChange after choosing EUR. *)
SessionStores ==
    {EmptyStore,
     Storage_setPreferences(EmptyStore,
         [currency |-> "USD", taxRate |-> Num(8), template |-> "classic"], TRUE),
     Storage_setPreferences(
         Storage_set(EmptyStore, STORAGE_KEYS.PADDLE_CUSTOMER,
                     ActiveCustomer(MaxClock + 1), TRUE),
         [currency |-> "EUR", taxRate |-> Num(8), template |-> "modern"], TRUE)}

(* The store of a subscriber who saved a business profile (saveBusinessInfo) *)
ProfileStore ==
    Storage_setBusinessInfo(
        Storage_set(EmptyStore, STORAGE_KEYS.PADDLE_CUSTOMER,
                    ActiveCustomer(MaxClock + 1), TRUE),
        [DefaultBusiness EXCEPT !.name = <<"A", "c", "m", "e">>,
                                !.email = <<"a", "@", "b">>], TRUE)

(* The page is opened in tab w: Alpine constructs the component and runs
   init(), which registers the watchers last, so init's own writes start no
   timer. *)
Start(w) ==
    \E rnd \in RandomDraws :
        /\ ~win[w].running
        /\ win' = [win EXCEPT ![w] = init(NewApp(today), localStorage, now, today, rnd)]
        /\ lastOp' = Op("init", w)
        /\ mutatedAt' = [mutatedAt EXCEPT ![w] = Null]
        /\ UNCHANGED <<now, today, localStorage>>

(* The page of tab w is reloaded: the old component and its timers are gone,
   a new one is constructed and runs init(). *)
Reload(w) ==
    \E rnd \in RandomDraws :
        /\ win[w].running
        /\ win' = [win EXCEPT ![w] = init(NewApp(today), localStorage, now, today, rnd)]
        /\ lastOp' = Op("reload", w)
        /\ mutatedAt' = [mutatedAt EXCEPT ![w] = Null]
        /\ UNCHANGED <<now, today, localStorage>>

(* The wall clock advances; a timer that is due may still be waiting for the
   event loop. *)
Tick(step) ==
    /\ now + step <= MaxClock
    /\ now' = now + step
    /\ lastOp' = Op("tick", "-")
    /\ UNCHANGED <<today, localStorage, win, mutatedAt>>

(* The calendar date changes *)
Midnight ==
    /\ today < MaxDay
    /\ today' = today + 1
    /\ lastOp' = Op("midnight", "-")
    /\ UNCHANGED <<now, localStorage, win, mutatedAt>>

(* The history modal's Duplicate button, for an id of the history or for one
   no entry has (0).  loadDraft assigns new objects to watched fields, so the
   watchers run whatever the values.  lastOp.pre is the id. *)
DuplicateFromHistory(w) ==
    \E id \in {0} \cup {Storage_getHistory(localStorage)[i].id :
                           i \in DOMAIN Storage_getHistory(localStorage)},
       rnd \in RandomDraws :
        IF IsNull(Storage_getHistoryItem(localStorage, id))
        THEN /\ win[w].running
             /\ lastOp' = OpPre("duplicateFromHistory", w, id)
             /\ UNCHANGED <<now, today, localStorage, win, mutatedAt>>
        ELSE Watched(w, duplicateFromHistory(win[w], localStorage, id, today, rnd),
                     "duplicateFromHistory", id)

(* A row's remove button: removeItem(index) for a row of the list.  On a
   one-row list nothing is assigned, so no watcher runs.  lastOp.pre is the
   index. *)
RemoveItemAt(w) ==
    \E i \in 1..Len(win[w].items) :
        IF removeItem(win[w], i) = win[w]
        THEN /\ win[w].running
             /\ lastOp' = OpPre("removeItemAt", w, i)
             /\ UNCHANGED <<now, today, localStorage, win, mutatedAt>>
        ELSE Watched(w, removeItem(win[w], i), "removeItemAt", i)

(* What the user may type as a name or a description *)
TextInputs == {EmptyText, <<" ">>, <<"A", "c", "m", "e">>}

SetBusinessName(w) ==
    \E v \in TextInputs :
        Mutate(w, [win[w] EXCEPT !.business.name = v], "edit")

SetClientName(w) ==
    \E v \in TextInputs :
        Mutate(w, [win[w] EXCEPT !.client.name = v], "edit")

SetItemDescription(w) ==
    \E i \in 1..Len(win[w].items), v \in TextInputs :
        Mutate(w, [win[w] EXCEPT !.items[i].description = v], "edit")

(* The Download button.  lastOp.pre is 1 when the call set isGeneratingPDF *)
DownloadPDF(w) ==
    /\ win[w].running
    /\ win' = [win EXCEPT ![w] = downloadPDF(win[w])]
    /\ lastOp' = OpPre("downloadPDF", w,
                       IF ~win[w].isGeneratingPDF /\ win'[w].isGeneratingPDF
                       THEN 1 ELSE 0)
    /\ UNCHANGED <<now, today, localStorage, mutatedAt>>

(* The canvases html2canvas can deliver: 2100 pixels wide, and as high as
   two thirds of a page, one page, a page and a bit, and more than two *)
Canvases ==
    {[width |-> 2100, height |-> h] : h \in {2000, 2970, 2980, 7000}}

(* The rendering a generate call awaits ends: generate settles, and a
   downloadPDF that awaited it (isGeneratingPDF) resumes.  lastOp.pre is the
   image height in mm of the document that was saved, 0 when none was *)
PDFSettles(w) ==
    \E saved \in BOOLEAN, canvas \in Canvases :
        /\ win[w].running
        /\ win[w].pdfGenerating
        /\ LET done == PDFGenerator_settle(win[w], saved,
                                           ImgHeight(canvas.width, canvas.height))
           IN  win' = [win EXCEPT ![w] =
                          IF win[w].isGeneratingPDF
                          THEN downloadPDF_resume(done.app, done.returned)
                          ELSE done.app]
        /\ lastOp' = OpPre("pdfSettles", w,
                           IF saved THEN ImgHeight(canvas.width, canvas.height)
                           ELSE 0)
        /\ UNCHANGED <<now, today, localStorage, mutatedAt>>

(* Another caller of the page calls PDFGenerator.generate.  lastOp.pre is
   what the call returned at once: "null", or "pending" for a promise *)
GenerateCall(w) ==
    \E addWatermark \in BOOLEAN :
        LET call == PDFGenerator_generate(win[w], addWatermark) IN
        /\ win[w].running
        /\ win' = [win EXCEPT ![w] = call.app]
        /\ lastOp' = OpPre("generate", w, call.returned)
        /\ UNCHANGED <<now, today, localStorage, mutatedAt>>

Currencies == {"USD", "EUR"}
Templates == {"classic", "modern"}

(* The currency select: x-model writes the chosen currency, a watched field,
   then @change calls onCurrencyChange.  lastOp.pre is the chosen currency. *)
SelectCurrency(w) ==
    \E c \in Currencies \ {win[w].currency}, ok \in Succeeds :
        LET out == onCurrencyChange([win[w] EXCEPT !.currency = c],
                                    localStorage, ok) IN
        /\ win[w].running
        /\ now + SAVE_DELAY <= MaxClock
        /\ win' = [win EXCEPT ![w] = debouncedSaveDraft(out.app, now)]
        /\ localStorage' = out.store
        /\ lastOp' = OpPre("onCurrencyChange", w, c)
        /\ mutatedAt' = [mutatedAt EXCEPT ![w] = Some(now)]
        /\ UNCHANGED <<now, today>>

(* A template card is clicked.  lastOp.pre is the template asked for. *)
SelectTemplate(w) ==
    \E template \in Templates, ok \in Succeeds :
        LET out == onTemplateChange(win[w], localStorage, template, ok) IN
        /\ win[w].running
        /\ win' = [win EXCEPT ![w] = out.app]
        /\ localStorage' = out.store
        /\ lastOp' = OpPre("onTemplateChange", w, template)
        /\ UNCHANGED <<now, today, mutatedAt>>

SaveBusinessInfo(w) ==
    \E ok \in Succeeds :
        LET out == saveBusinessInfo(win[w], localStorage, ok) IN
        /\ win[w].running
        /\ win' = [win EXCEPT ![w] = out.app]
        /\ localStorage' = out.store
        /\ lastOp' = Op("saveBusinessInfo", w)
        /\ UNCHANGED <<now, today, mutatedAt>>

(* The assignment of a new object to business runs its watcher *)
LoadBusinessInfo(w) ==
    LET a == loadBusinessInfo(win[w], localStorage) IN
    IF win[w].isPremium /\ Storage_getBusinessInfo(localStorage).name # EmptyText
    THEN Watched(w, a, "loadBusinessInfo", 0)
    ELSE /\ win[w].running
         /\ win' = [win EXCEPT ![w] = a]
         /\ lastOp' = Op("loadBusinessInfo", w)
         /\ UNCHANGED <<now, today, localStorage, mutatedAt>>

LogoFiles ==
    {Null,
     Some([size |-> 100000, image |-> TRUE, dataURL |-> <<"d", "a", "t", "a">>]),
     Some([size |-> 600000, image |-> TRUE, dataURL |-> <<"b", "i", "g">>]),
     Some([size |-> 100000, image |-> FALSE, dataURL |-> <<"p", "d", "f">>])}

HandleLogoUpload(w) ==
    \E file \in LogoFiles :
        /\ win[w].running
        /\ win' = [win EXCEPT ![w] = handleLogoUpload(win[w], file)]
        /\ lastOp' = Op("handleLogoUpload", w)
        /\ UNCHANGED <<now, today, localStorage, mutatedAt>>

(* The FileReader finishes; the write to business.logo runs the watcher *)
LogoRead(w) ==
    /\ ~IsNull(win[w].logoReader)
    /\ Watched(w, FileReader_onload(win[w]), "logoRead", 0)

(* A call of PaddleHandler.checkSubscriptionStatus(); lastOp.pre is what it
   returned. *)
CheckSubscriptionStatus ==
    \E ok \in Succeeds :
        LET out == checkSubscriptionStatus(localStorage, now, ok) IN
        /\ localStorage' = out.store
        /\ lastOp' = OpPre("checkSubscriptionStatus", "-", out.returned)
        /\ UNCHANGED <<now, today, win, mutatedAt>>

(* The New Invoice button; confirmed is the answer to confirm().  The resets
   assign new objects to watched fields, so the watchers run.  lastOp.pre is
   1 when the user confirmed. *)
NewInvoice(w) ==
    \E confirmed \in BOOLEAN, rnd \in RandomDraws, ok \in Succeeds :
        LET out == newInvoice(win[w], localStorage, confirmed, today, rnd, ok) IN
        /\ win[w].running
        /\ IF confirmed
           THEN /\ now + SAVE_DELAY <= MaxClock
                /\ win' = [win EXCEPT ![w] = debouncedSaveDraft(out.app, now)]
                /\ mutatedAt' = [mutatedAt EXCEPT ![w] = Some(now)]
           ELSE /\ win' = [win EXCEPT ![w] = out.app]
                /\ UNCHANGED mutatedAt
        /\ localStorage' = out.store
        /\ lastOp' = OpPre("newInvoice", w, IF confirmed THEN 1 ELSE 0)
        /\ UNCHANGED <<now, today>>

(* The ids of the stored history, and 0, an id no entry has *)
HistoryIds ==
    {0} \cup {Storage_getHistory(localStorage)[i].id :
                i \in DOMAIN Storage_getHistory(localStorage)}

(* The Save to History button, while the model's history is short.
   lastOp.pre is the length of the history it found. *)
SaveToHistory(w) ==
    \E ok \in Succeeds :
        LET out == saveToHistory(win[w], localStorage, now, ok) IN
        /\ win[w].running
        /\ Len(Storage_getHistory(localStorage)) < MaxSnapshots
        /\ win' = [win EXCEPT ![w] = out.app]
        /\ localStorage' = out.store
        /\ lastOp' = OpPre("saveToHistory", w, Len(Storage_getHistory(localStorage)))
        /\ UNCHANGED <<now, today, mutatedAt>>

(* The history modal's Load button; loadDraft assigns new objects to watched
   fields.  lastOp.pre is the id. *)
LoadFromHistory(w) ==
    \E id \in HistoryIds :
        IF IsNull(Storage_getHistoryItem(localStorage, id))
        THEN /\ win[w].running
             /\ lastOp' = OpPre("loadFromHistory", w, id)
             /\ UNCHANGED <<now, today, localStorage, win, mutatedAt>>
        ELSE Watched(w, loadFromHistory(win[w], localStorage, id),
                     "loadFromHistory", id)

(* The history modal's Delete button and its confirm().  lastOp.pre is the id *)
DeleteFromHistory(w) ==
    \E id \in HistoryIds, confirmed \in BOOLEAN, ok \in Succeeds :
        LET out == deleteFromHistory(win[w], localStorage, id, confirmed, ok) IN
        /\ win[w].running
        /\ win' = [win EXCEPT ![w] = out.app]
        /\ localStorage' = out.store
        /\ lastOp' = OpPre(IF confirmed THEN "deleteFromHistory"
                           ELSE "deleteFromHistory declined", w, id)
        /\ UNCHANGED <<now, today, mutatedAt>>

(* The history modal's Clear All button and its confirm() *)
ClearAllHistory(w) ==
    \E confirmed \in BOOLEAN, ok \in Succeeds :
        LET out == clearAllHistory(win[w], localStorage, confirmed, ok) IN
        /\ win[w].running
        /\ win' = [win EXCEPT ![w] = out.app]
        /\ localStorage' = out.store
        /\ lastOp' = OpPre(IF confirmed THEN "clearAllHistory"
                           ELSE "clearAllHistory declined", w,
                           Len(Storage_getHistory(localStorage)))
        /\ UNCHANGED <<now, today, mutatedAt>>

(* The event loop runs a setTimeout callback of debouncedSaveDraft that is
   due: () => this.saveDraft().  lastOp.pre is the instant it was due. *)
SaveTimerFires(w) ==
    \E tm \in win[w].timers, ok \in Succeeds :
        /\ win[w].running
        /\ tm.due <= now
        /\ LET out == saveDraft([win[w] EXCEPT !.timers = @ \ {tm}],
                                localStorage, now, ok)
           IN  /\ win' = [win EXCEPT ![w] = out.app]
               /\ localStorage' = out.store
        /\ lastOp' = OpPre("saveDraftTimer", w, tm.due)
        /\ UNCHANGED <<now, today, mutatedAt>>

-----------------------------------------------------------------------------
(* SpecCalc: the computed values over every line-item list, discount and tax
   rate of the input sets, in a running tab A. *)

RECURSIVE ItemLists(_)
ItemLists(n) ==
    IF n = 0 THEN {<<>>}
    ELSE LET shorter == ItemLists(n - 1) IN
         shorter \cup
         {Append(l, [description |-> EmptyText, quantity |-> q, price |-> p]) :
            l \in {x \in shorter : Len(x) = n - 1},
            q \in QuantityInputs, p \in PriceInputs}

RunningApp(d, rnd) == init(NewApp(d), EmptyStore, 0, d, rnd)

InitCalc ==
    /\ now = 0
    /\ today = 0
    /\ localStorage = EmptyStore
    /\ lastOp = Op("init", "A")
    /\ mutatedAt = NeverMutated
    /\ \E its \in ItemLists(MaxItems) \ {<<>>}, ty \in DiscountTypes,
          dv \in DiscountValueInputs, tx \in TaxRateInputs :
          win = [w \in Tabs |->
                   IF w = "A"
                   THEN [RunningApp(0, 7) EXCEPT
                           !.items = its,
                           !.discount = [type |-> ty, value |-> dv],
                           !.taxRate = tx]
                   ELSE NewApp(0)]

NextCalc ==
    \/ SetItemQuantity("A")
    \/ SetItemPrice("A")
    \/ SetDiscountType("A")
    \/ SetDiscountValue("A")
    \/ SetTaxRate("A")
    \/ AddItem("A")
    \/ RemoveItem("A")

SpecCalc == InitCalc /\ [][NextCalc]_vars

-----------------------------------------------------------------------------
(* SpecHist: the history API of the Persistence Store, called from an empty
   history.  Each addToHistory reads the clock one millisecond after the one
   before, so the ids are distinct; removeFromHistory is asked for the oldest
   id or for an id no entry has. *)

IdleTabs == [w \in Tabs |-> NewApp(0)]

(* What saveToHistory passes for the invoice of a freshly started tab *)
SampleInvoice ==
    LET a == RunningApp(0, 7) IN Merge(DraftOf(a), [total |-> total(a)])

InitHist ==
    /\ now = 0
    /\ today = 0
    /\ localStorage = EmptyStore
    /\ win = IdleTabs
    /\ lastOp = Op("init", "-")
    /\ mutatedAt = NeverMutated

HistAdd ==
    \E ok \in Succeeds :
        /\ now < MaxHistoryClock
        /\ now' = now + 1
        /\ localStorage' = Storage_addToHistory(localStorage, SampleInvoice, now', ok)
        /\ lastOp' = OpPre("addToHistory", "-", Len(Storage_getHistory(localStorage)))
        /\ UNCHANGED <<today, win, mutatedAt>>

HistRemove ==
    \E ok \in Succeeds :
        LET history == Storage_getHistory(localStorage) IN
        \E id \in {0} \cup {history[i].id : i \in {Len(history)} \ {0}}
                   \cup {history[i].id : i \in IF now <= MaxPickClock
                                                THEN DOMAIN history ELSE {}} :
            /\ localStorage' = Storage_removeFromHistory(localStorage, id, ok)
            /\ lastOp' = OpPre("removeFromHistory", "-", id)
            /\ UNCHANGED <<now, today, win, mutatedAt>>

HistClear ==
    \E ok \in Succeeds :
        /\ localStorage' = Storage_clearHistory(localStorage, ok)
        /\ lastOp' = OpPre("clearHistory", "-", Len(Storage_getHistory(localStorage)))
        /\ UNCHANGED <<now, today, win, mutatedAt>>

NextHist == HistAdd \/ HistRemove \/ HistClear

SpecHist == InitHist /\ [][NextHist]_vars

-----------------------------------------------------------------------------
(* SpecUsage: the Usage Limiter, called on successive days from a store with
   no usage record. *)

InitUsage ==
    /\ now = 0
    /\ today = 0
    /\ localStorage = EmptyStore
    /\ win = IdleTabs
    /\ lastOp = Op("init", "-")
    /\ mutatedAt = NeverMutated

UsageIncrement ==
    \E ok \in Succeeds :
        /\ AIPrompt_getUsage(localStorage).count < MaxUsageCount
        /\ localStorage' = AIPrompt_incrementUsage(localStorage, today, ok)
        /\ lastOp' = OpPre("incrementUsage", "-",
                           AIPrompt_getRemainingPrompts(localStorage, today))
        /\ UNCHANGED <<now, today, win, mutatedAt>>

UsageNextDay ==
    /\ today < MaxUsageDay
    /\ today' = today + 1
    /\ lastOp' = Op("midnight", "-")
    /\ UNCHANGED <<now, localStorage, win, mutatedAt>>

UsageRemaining ==
    /\ lastOp' = OpPre("getRemainingPrompts", "-",
                       AIPrompt_getRemainingPrompts(localStorage, today))
    /\ UNCHANGED <<now, today, localStorage, win, mutatedAt>>

UsageCanUse ==
    \E premium \in BOOLEAN :
        /\ lastOp' = OpPre("canUsePrompt", IF premium THEN "premium" ELSE "free",
                           IF AIPrompt_canUsePrompt(localStorage, today, premium)
                           THEN 1 ELSE 0)
        /\ UNCHANGED <<now, today, localStorage, win, mutatedAt>>

NextUsage == UsageIncrement \/ UsageNextDay \/ UsageRemaining \/ UsageCanUse

SpecUsage == InitUsage /\ [][NextUsage]_vars

-----------------------------------------------------------------------------
(* SpecDebounce: the auto-save of one tab that stays open.  The page is
   opened with an empty store, the user edits watched fields while the clock
   advances, and the event loop runs the save timers that are due; every
   write to the store succeeds. *)

InitDebounce ==
    /\ now = 0
    /\ today = 0
    /\ localStorage = EmptyStore
    /\ win = IdleTabs
    /\ lastOp = Op("init", "-")
    /\ mutatedAt = NeverMutated

NextDebounce ==
    \/ Start("A")
    \/ SetTaxRate("A")
    \/ SetDiscountType("A")
    \/ AddItem("A")
    \/ RemoveItem("A")
    \/ Tick(TickStep)
    \/ SaveTimerFires("A")

SpecDebounce == InitDebounce /\ [][NextDebounce]_vars

(* Time passes, and the event loop eventually runs a timer that stays due *)
FairDebounce ==
    /\ WF_vars(Tick(TickStep))
    /\ WF_vars(SaveTimerFires("A"))

SpecDebounceFair == SpecDebounce /\ FairDebounce

-----------------------------------------------------------------------------
(* SpecRoundTrip: a session in tab A left a form filled in and its save
   pending; the timer fires, the user may change the tax rate again, the date
   may change, and the page is reloaded. *)

InitRoundTrip ==
    /\ now = 0
    /\ today = 0
    /\ lastOp = Op("init", "A")
    /\ mutatedAt = [NeverMutated EXCEPT !["A"] = Some(0)]
    /\ \E store \in SessionStores, rnd \in RandomDraws, f \in FormFills :
          /\ localStorage = store
          /\ win = [IdleTabs EXCEPT
                      !["A"] = debouncedSaveDraft(FilledApp(store, rnd, f), 0)]

NextRoundTrip ==
    \/ Tick(SAVE_DELAY)
    \/ SaveTimerFires("A")
    \/ SetTaxRate("A")
    \/ Midnight
    \/ Reload("A")

SpecRoundTrip == InitRoundTrip /\ [][NextRoundTrip]_vars

-----------------------------------------------------------------------------
(* SpecDup: a session in tab A filled in a form and saved it to the history
   at instant 1 of day 0; the user changes the tax rate, reloads the page
   (no draft was saved yet, so the form is back to its defaults), the date
   may change, and the snapshot is duplicated. *)

InitDup ==
    /\ now = 1
    /\ today = 0
    /\ lastOp = Op("saveToHistory", "A")
    /\ mutatedAt = [NeverMutated EXCEPT !["A"] = Some(0)]
    /\ \E store \in SessionStores, rnd \in RandomDraws, f \in FormFills :
          LET out == saveToHistory(debouncedSaveDraft(FilledApp(store, rnd, f), 0),
                                   store, 1, TRUE)
          IN  /\ localStorage = out.store
              /\ win = [IdleTabs EXCEPT !["A"] = out.app]

NextDup ==
    \/ SetTaxRate("A")
    \/ Reload("A")
    \/ Midnight
    \/ DuplicateFromHistory("A")

SpecDup == InitDup /\ [][NextDup]_vars

-----------------------------------------------------------------------------
(* SpecExport: a tab opened with an empty store; the user types names and
   descriptions and presses Download, and renderings end. *)

InitExport ==
    /\ now = 0
    /\ today = 0
    /\ localStorage = EmptyStore
    /\ lastOp = Op("init", "A")
    /\ mutatedAt = NeverMutated
    /\ \E rnd \in RandomDraws :
          win = [IdleTabs EXCEPT !["A"] = RunningApp(0, rnd)]

NextExport ==
    \/ SetBusinessName("A")
    \/ SetClientName("A")
    \/ SetItemDescription("A")
    \/ AddItem("A")
    \/ RemoveItem("A")
    \/ DownloadPDF("A")
    \/ PDFSettles("A")

SpecExport == InitExport /\ [][NextExport]_vars

-----------------------------------------------------------------------------
(* SpecNew: a session in tab A left the form untouched or filled in every
   field, and saved it to the history at instant 1 of day 0; the save timer
   fires, the page is reloaded, the date may change, and New Invoice is
   pressed and confirmed or declined. *)

InitNew ==
    /\ now = 1
    /\ today = 0
    /\ lastOp = Op("saveToHistory", "A")
    /\ mutatedAt = [NeverMutated EXCEPT !["A"] = Some(0)]
    /\ \E store \in SessionStores \cup {ProfileStore}, rnd \in RandomDraws,
          f \in {g \in FormFills :
                  \/ /\ g.businessName = EmptyText /\ g.clientName = EmptyText
                     /\ IsNull(g.number) /\ g.dueDate = Some(DUE_DAYS)
                     /\ g.items = <<BlankItem>> /\ g.discountType = "percentage"
                  \/ /\ g.businessName # EmptyText /\ g.clientName # EmptyText
                     /\ ~IsNull(g.number) /\ g.dueDate # Some(DUE_DAYS)
                     /\ g.items # <<BlankItem>> /\ g.discountType = "fixed"} :
          LET out == saveToHistory(debouncedSaveDraft(FilledApp(store, rnd, f), 0),
                                   store, 1, TRUE)
          IN  /\ localStorage = out.store
              /\ win = [IdleTabs EXCEPT !["A"] = out.app]

NextNew ==
    \/ NewInvoice("A")
    \/ SetTaxRate("A")
    \/ Tick(SAVE_DELAY)
    \/ SaveTimerFires("A")
    \/ Reload("A")
    \/ Midnight

SpecNew == InitNew /\ [][NextNew]_vars

(* SpecFresh: the same sessions with no edit at all: New Invoice is pressed
   and confirmed or declined, the clock advances, timers fire, the page is
   reloaded and the date may change. *)

NextFresh ==
    \/ NewInvoice("A")
    \/ Tick(SAVE_DELAY)
    \/ SaveTimerFires("A")
    \/ Reload("A")
    \/ Midnight

SpecFresh == InitNew /\ [][NextFresh]_vars

-----------------------------------------------------------------------------
(* SpecFail: the store's calls when localStorage or JSON fail.  The business
   profile and the history start absent, unparsable or well-formed; every
   write is drawn to succeed or to throw.  lastOp.pre holds what the call
   was given and what it returned. *)

NamedBusiness == [DefaultBusiness EXCEPT !.name = <<"A", "c", "m", "e">>]

FailKeys == {STORAGE_KEYS.BUSINESS_INFO, STORAGE_KEYS.HISTORY}

InitFail ==
    /\ now = 0
    /\ today = 0
    /\ win = IdleTabs
    /\ lastOp = Op("init", "-")
    /\ mutatedAt = NeverMutated
    /\ \E b \in {Null, Unparsable, Some(NamedBusiness)},
          h \in {Null, Unparsable, Some(<<>>)} :
          localStorage = [EmptyStore EXCEPT ![STORAGE_KEYS.BUSINESS_INFO] = b,
                                            ![STORAGE_KEYS.HISTORY] = h]

FailGet ==
    \E key \in FailKeys :
        /\ lastOp' = OpPre("Storage.get", "-",
                           [key |-> key,
                            returned |-> Storage_get(localStorage, key),
                            business |-> Storage_getBusinessInfo(localStorage),
                            history |-> Storage_getHistory(localStorage)])
        /\ UNCHANGED <<now, today, localStorage, win, mutatedAt>>

FailSetBusinessInfo ==
    \E ok \in BOOLEAN, info \in {DefaultBusiness, NamedBusiness} :
        /\ localStorage' = Storage_setBusinessInfo(localStorage, info, ok)
        /\ lastOp' = OpPre("Storage.set", "-",
                           [key |-> STORAGE_KEYS.BUSINESS_INFO, ok |-> ok,
                            returned |-> Storage_set_returns(localStorage,
                                STORAGE_KEYS.BUSINESS_INFO, info, ok)])
        /\ UNCHANGED <<now, today, win, mutatedAt>>

FailAddToHistory ==
    \E ok \in BOOLEAN :
        /\ now < MaxFailClock
        /\ now' = now + 1
        /\ localStorage' = Storage_addToHistory(localStorage, SampleInvoice, now', ok)
        /\ lastOp' = OpPre("Storage.set", "-",
                           [key |-> STORAGE_KEYS.HISTORY, ok |-> ok,
                            returned |-> Storage_set_returns(localStorage,
                                STORAGE_KEYS.HISTORY, <<>>, ok)])
        /\ UNCHANGED <<today, win, mutatedAt>>

FailRemove ==
    \E ok \in BOOLEAN, key \in FailKeys :
        /\ localStorage' = Storage_remove(localStorage, key, ok)
        /\ lastOp' = OpPre("Storage.remove", "-",
                           [key |-> key, ok |-> ok,
                            returned |-> Storage_remove_returns(localStorage, key, ok)])
        /\ UNCHANGED <<now, today, win, mutatedAt>>

NextFail == FailGet \/ FailSetBusinessInfo \/ FailAddToHistory \/ FailRemove

SpecFail == InitFail /\ [][NextFail]_vars

-----------------------------------------------------------------------------
(* SpecGate: the premium features.  A tab is opened at instant 1 over the
   store of a new user, of a subscriber with a stored business profile, or
   of a former subscriber whose subscription ran out at instant 0 and who
   left preferences and a profile behind. *)

FormerSubscriberStore ==
    Storage_setBusinessInfo(
        Storage_setPreferences(
            Storage_set(EmptyStore, STORAGE_KEYS.PADDLE_CUSTOMER,
                        ActiveCustomer(0), TRUE),
            [currency |-> "EUR", taxRate |-> Num(8), template |-> "modern"], TRUE),
        NamedBusiness, TRUE)

InitGate ==
    /\ now = 1
    /\ today = 0
    /\ lastOp = Op("init", "A")
    /\ mutatedAt = NeverMutated
    /\ \E store \in {EmptyStore, ProfileStore, FormerSubscriberStore} :
          /\ localStorage = store
          /\ win = [IdleTabs EXCEPT !["A"] = init(NewApp(0), store, 1, 0, 7)]

NextGate ==
    \/ SetBusinessName("A")
    \/ SelectCurrency("A")
    \/ SelectTemplate("A")
    \/ SaveBusinessInfo("A")
    \/ LoadBusinessInfo("A")
    \/ HandleLogoUpload("A")
    \/ LogoRead("A")

SpecGate == InitGate /\ [][NextGate]_vars

-----------------------------------------------------------------------------
(* SpecSub: the subscription record over time.  The store holds no record,
   or a record with status active or expired and with no expiry, an expiry at
   SAVE_DELAY or one after the model's last instant; the page is opened and
   reloaded as the clock advances, and checkSubscriptionStatus is called. *)

SubscriptionStores ==
    {EmptyStore}
    \cup {Storage_set(EmptyStore, STORAGE_KEYS.PADDLE_CUSTOMER,
                      [ActiveCustomer(0) EXCEPT !.status = st, !.expiresAt = e], TRUE) :
            st \in {"active", "expired"},
            e \in {Null, Some(SAVE_DELAY), Some(MaxClock + 1)}}

InitSub ==
    /\ now = 0
    /\ today = 0
    /\ win = IdleTabs
    /\ lastOp = Op("none", "-")
    /\ mutatedAt = NeverMutated
    /\ localStorage \in SubscriptionStores

NextSub ==
    \/ Start("A")
    \/ Reload("A")
    \/ Tick(TickStep)
    \/ CheckSubscriptionStatus
    \/ SetTaxRate("A")
    \/ SaveTimerFires("A")

SpecSub == InitSub /\ [][NextSub]_vars

-----------------------------------------------------------------------------
(* SpecTabs: two tabs of one browser over one localStorage.  Both pages were
   opened with an empty store; each user edits the tax rate of their tab, the
   clock advances and the event loop of each tab runs its save timers. *)

InitTabs ==
    /\ now = 0
    /\ today = 0
    /\ localStorage = EmptyStore
    /\ win = [A |-> init(NewApp(0), EmptyStore, 0, 0, 7),
              B |-> init(NewApp(0), EmptyStore, 0, 0, 42)]
    /\ lastOp = Op("init", "B")
    /\ mutatedAt = NeverMutated

NextTabs ==
    \/ SetTaxRate("A")
    \/ SetTaxRate("B")
    \/ Tick(SAVE_DELAY)
    \/ SaveTimerFires("A")
    \/ SaveTimerFires("B")

SpecTabs == InitTabs /\ [][NextTabs]_vars

-----------------------------------------------------------------------------
(* SpecPdf: the export of a filled form.  A new user or a subscriber has
   typed the names and a description; Download is pressed, renderings end
   with a saved document or an error, the success modal is closed, and
   PDFGenerator.generate is also called directly. *)

InitPdf ==
    /\ now = 0
    /\ today = 0
    /\ lastOp = Op("init", "A")
    /\ mutatedAt = NeverMutated
    /\ \E store \in {EmptyStore, ProfileStore} :
          /\ localStorage = store
          /\ win = [IdleTabs EXCEPT !["A"] =
                       [init(NewApp(0), store, 0, 0, 7) EXCEPT
                           !.business.name = <<"A", "c", "m", "e">>,
                           !.client.name = <<"A", "c", "m", "e">>,
                           !.items[1].description = <<"A", "c", "m", "e">>]]

(* The success modal's close button *)
CloseSuccessModal(w) ==
    /\ win[w].showSuccessModal
    /\ win' = [win EXCEPT ![w].showSuccessModal = FALSE]
    /\ lastOp' = Op("closeSuccessModal", w)
    /\ UNCHANGED <<now, today, localStorage, mutatedAt>>

NextPdf ==
    \/ DownloadPDF("A")
    \/ PDFSettles("A")
    \/ GenerateCall("A")
    \/ CloseSuccessModal("A")

SpecPdf == InitPdf /\ [][NextPdf]_vars

(* A rendering ends: html2canvas resolves or rejects *)
FairPdf == WF_vars(PDFSettles("A"))

SpecPdfFair == SpecPdf /\ FairPdf

-----------------------------------------------------------------------------
(* SpecQuota: the usage limiter as two pages of one browser use it.  A page
   asks canUsePrompt before a prompt and calls incrementUsage only after
   canUsePrompt(false) returned true, once for each such answer; the date
   changes in between.  lastOp.pre of a canUsePrompt holds the argument, the
   answer and what getRemainingPrompts returned at that moment. *)

InitQuota ==
    /\ now = 0
    /\ today = 0
    /\ localStorage = EmptyStore
    /\ win = IdleTabs
    /\ lastOp = Op("init", "-")
    /\ mutatedAt = NeverMutated

QuotaCanUse(w) ==
    \E premium \in BOOLEAN :
        LET answer == AIPrompt_canUsePrompt(localStorage, today, premium) IN
        /\ win' = [win EXCEPT ![w].mayPrompt = IF premium THEN @ ELSE answer]
        /\ lastOp' = OpPre("canUsePrompt", w,
                           [premium |-> premium, returned |-> answer,
                            remaining |-> AIPrompt_getRemainingPrompts(localStorage,
                                                                       today)])
        /\ UNCHANGED <<now, today, localStorage, mutatedAt>>

QuotaIncrement(w) ==
    \E ok \in Succeeds :
        /\ win[w].mayPrompt
        /\ win' = [win EXCEPT ![w].mayPrompt = FALSE]
        /\ localStorage' = AIPrompt_incrementUsage(localStorage, today, ok)
        /\ lastOp' = OpPre("incrementUsage", w,
                           AIPrompt_getRemainingPrompts(localStorage, today))
        /\ UNCHANGED <<now, today, mutatedAt>>

NextQuota ==
    \/ QuotaCanUse("A")
    \/ QuotaCanUse("B")
    \/ QuotaIncrement("A")
    \/ QuotaIncrement("B")
    \/ UsageNextDay

SpecQuota == InitQuota /\ [][NextQuota]_vars

-----------------------------------------------------------------------------
(* SpecSnap: the history as the component uses it.  A tab is opened; the
   user changes the tax rate, the auto-save fires, and snapshots are saved,
   loaded, duplicated, deleted and cleared. *)

InitSnap ==
    /\ now = 0
    /\ today = 0
    /\ lastOp = Op("init", "A")
    /\ mutatedAt = NeverMutated
    /\ \E store \in SessionStores :
          /\ Storage_getPreferences(store).currency = "EUR"
          /\ localStorage = store
          /\ win = [IdleTabs EXCEPT !["A"] = init(NewApp(0), store, 0, 0, 7)]

NextSnap ==
    \/ SetTaxRate("A")
    \/ now + SAVE_DELAY <= MaxSnapClock /\ Tick(SAVE_DELAY)
    \/ SaveTimerFires("A")
    \/ SaveToHistory("A")
    \/ LoadFromHistory("A")
    \/ DuplicateFromHistory("A")
    \/ DeleteFromHistory("A")
    \/ ClearAllHistory("A")

SpecSnap == InitSnap /\ [][NextSnap]_vars

-----------------------------------------------------------------------------
(* Properties of the computed values, checked under SpecCalc *)

Item(q, p) == [description |-> EmptyText, quantity |-> q, price |-> p]

(* C4: subtotalAfterDiscount is max(0, subtotal - discountAmount), so it is
   never negative for any line items, discount type and discount value; when
   the discount amount is at least the subtotal, subtotalAfterDiscount,
   taxAmount and total are all 0. *)
C4_SubtotalAfterDiscountNeverNegative ==
    LET a == win["A"]
        diff == subtotal(a) - discountAmount(a)
    IN  /\ subtotalAfterDiscount(a) >= 0
        /\ subtotalAfterDiscount(a) = (IF diff > 0 THEN diff ELSE 0)
        /\ discountAmount(a) >= subtotal(a) =>
             /\ subtotalAfterDiscount(a) = 0
             /\ taxAmount(a) = 0
             /\ total(a) = 0

(* The scenario of C4: a fixed discount of 600 on a subtotal of 500, reached
   by an edit. *)
C4_Witness ==
    LET a == win["A"] IN
    /\ lastOp.op = "edit"
    /\ a.items = <<Item(Num(10), Num(50))>>
    /\ a.discount = [type |-> "fixed", value |-> Num(600)]
    /\ a.taxRate = Num(8)
    /\ subtotal(a) = 500 * Unit
    /\ discountAmount(a) = 600 * Unit
    /\ subtotalAfterDiscount(a) = 0

RECURSIVE TrimEnd(_)
TrimEnd(s) ==
    IF Len(s) > 0 /\ s[Len(s)] = " " THEN TrimEnd(SubSeq(s, 1, Len(s) - 1)) ELSE s

(* A string is numeric when, white space around it aside, the whole of it is
   an optionally signed run of digits (Number(s) is not NaN). *)
NumericString(s) ==
    LET t == TrimEnd(SkipSpaces(s))
        body == IF Len(t) > 0 /\ Head(t) \in {"-", "+"} THEN Tail(t) ELSE t
    IN  Len(body) > 0 /\ \A i \in 1..Len(body) : body[i] \in Digits

(* The number a form value stands for, 0 when it is not numeric *)
NumericOrZero(v) ==
    CASE v.t = "num" -> v.n
      [] v.t = "str" -> IF NumericString(v.s) THEN Val(ParseFloatStr(v.s)) ELSE 0
      [] v.t = "null" -> 0

RECURSIVE SumNumeric(_)
SumNumeric(its) ==
    IF Len(its) = 0 THEN 0
    ELSE NumericOrZero(Head(its).quantity) * NumericOrZero(Head(its).price) * Unit
         + SumNumeric(Tail(its))

(* C5: for every line-item list, subtotal is the sum of quantity x price,
   where a quantity or price that is not numeric (empty, text, missing)
   contributes as 0. *)
C5_SubtotalNonNumericAsZero ==
    lastOp.op = "edit" => subtotal(win["A"]) = SumNumeric(win["A"].items)

(* C6: discountAmount is subtotal x value / 100 for a percentage discount and
   value itself for any other type; items [{qty 10, price 50}] with a 10%
   discount and an 8% tax rate give subtotal 500, discountAmount 50,
   subtotalAfterDiscount 450, taxAmount 36, total 486. *)
C6_DiscountAmountFormula ==
    LET a == win["A"] IN
    /\ a.discount.value.t = "num" =>
         IF a.discount.type = "percentage"
         THEN discountAmount(a) = (SumItems(a.items) \div Unit) * a.discount.value.n * 100
         ELSE discountAmount(a) = a.discount.value.n * Unit
    /\ ( /\ a.items = <<Item(Num(10), Num(50))>>
         /\ a.discount = [type |-> "percentage", value |-> Num(10)]
         /\ a.taxRate = Num(8) ) =>
         /\ subtotal(a) = 500 * Unit
         /\ discountAmount(a) = 50 * Unit
         /\ subtotalAfterDiscount(a) = 450 * Unit
         /\ taxAmount(a) = 36 * Unit
         /\ total(a) = 486 * Unit

(* The scenario of C6, reached by an edit *)
C6_Witness ==
    LET a == win["A"] IN
    /\ lastOp.op = "edit"
    /\ a.items = <<Item(Num(10), Num(50))>>
    /\ a.discount = [type |-> "percentage", value |-> Num(10)]
    /\ a.taxRate = Num(8)
    /\ total(a) = 486 * Unit

(* C7: for every state with a tax rate >= 0, taxAmount is
   subtotalAfterDiscount x taxRate / 100 and total is subtotalAfterDiscount +
   taxAmount; the getters are evaluated on the state an edit left, so the
   values read after an edit are those of the edited fields. *)
C7_TotalIsAfterDiscountPlusTax ==
    LET a == win["A"]
        diff == subtotal(a) - discountAmount(a)
        afterDiscount == IF diff > 0 THEN diff ELSE 0
    IN  (a.taxRate.t = "num" /\ a.taxRate.n >= 0) =>
          /\ afterDiscount % 100 = 0
          /\ taxAmount(a) = (afterDiscount \div 100) * a.taxRate.n
          /\ total(a) = afterDiscount + taxAmount(a)
          /\ total(a) = (afterDiscount \div 100) * (100 + a.taxRate.n)

(* An edit left a fixed discount of 10 and a tax rate of 8 on a subtotal of
   500: total 490 + 39.2 *)
C7_Witness ==
    LET a == win["A"] IN
    /\ lastOp.op = "edit"
    /\ a.items = <<Item(Num(10), Num(50))>>
    /\ a.discount = [type |-> "fixed", value |-> Num(10)]
    /\ a.taxRate = Num(8)
    /\ taxAmount(a) = 392 * 1000
    /\ total(a) = 490 * Unit + 392 * 1000

-----------------------------------------------------------------------------
(* Properties of the history API, checked under SpecHist *)

(* C1: from an empty history, after any sequence of addToHistory,
   removeFromHistory and clearHistory the stored list has at most 50 entries;
   an addToHistory on a list of 50 puts the new entry at the head and drops
   exactly the last (oldest) one. *)
C1_HistoryAtMostFifty ==
    [][LET before == Storage_getHistory(localStorage)
           after == Storage_getHistory(localStorage')
       IN  /\ Len(before) <= MAX_HISTORY_ITEMS
           /\ Len(after) <= MAX_HISTORY_ITEMS
           /\ (lastOp'.op = "addToHistory" /\ Len(before) = MAX_HISTORY_ITEMS) =>
                /\ Len(after) = MAX_HISTORY_ITEMS
                /\ Head(after) = HistoryEntry(SampleInvoice, now')
                /\ Tail(after) = SubSeq(before, 1, MAX_HISTORY_ITEMS - 1)
    ]_vars

(* An addToHistory found 50 entries and left 50, the new one first *)
C1_Witness ==
    LET history == Storage_getHistory(localStorage) IN
    /\ lastOp.op = "addToHistory"
    /\ lastOp.pre = MAX_HISTORY_ITEMS
    /\ Len(history) = MAX_HISTORY_ITEMS
    /\ history[1].id = now
    /\ history[MAX_HISTORY_ITEMS].id = now - MAX_HISTORY_ITEMS + 1

-----------------------------------------------------------------------------
(* Properties of the Usage Limiter, checked under SpecUsage *)

(* C9, as the claim states it: on the same day every increment() lowers
   remaining() by exactly 1. *)
C9_EveryIncrementLowersRemaining ==
    [][(lastOp'.op = "incrementUsage"
        /\ AIPrompt_getUsage(localStorage).date = Some(today)) =>
          AIPrompt_getRemainingPrompts(localStorage', today')
            = AIPrompt_getRemainingPrompts(localStorage, today) - 1
    ]_vars

(* C9, amended: remaining() is the full quota of 3 whenever the stored date
   is not today, whatever the stored count; an increment() lowers remaining()
   by exactly 1 while remaining() is above 0 and leaves it at 0 otherwise
   (the stored count still grows); an increment() after a date change stores
   today's date with count 1. *)
C9_UsageCounter ==
    [][LET usage == AIPrompt_getUsage(localStorage)
           usageAfter == AIPrompt_getUsage(localStorage')
           remaining == AIPrompt_getRemainingPrompts(localStorage, today)
           remainingAfter == AIPrompt_getRemainingPrompts(localStorage', today')
       IN  /\ usageAfter.date # Some(today') => remainingAfter = 3
           /\ lastOp'.op = "incrementUsage" =>
                /\ remaining > 0 => remainingAfter = remaining - 1
                /\ remaining = 0 => remainingAfter = 0
                /\ usage.date = Some(today) => usageAfter.count = usage.count + 1
                /\ usage.date # Some(today) =>
                     usageAfter = [date |-> Some(today), count |-> 1]
    ]_vars

(* An increment() found no prompt remaining: the fourth of a day *)
C9_Witness ==
    /\ lastOp.op = "incrementUsage"
    /\ lastOp.pre = 0
    /\ AIPrompt_getUsage(localStorage) = [date |-> Some(today), count |-> 4]
    /\ AIPrompt_getRemainingPrompts(localStorage, today) = 0

-----------------------------------------------------------------------------
(* Properties of the auto-save, checked under SpecDebounce *)

MutationOps == {"edit", "addItem", "removeItem"}

(* C2: auto-save is a trailing debounce.  In every step: the draft slot
   changes only when a save timer fires, and a save timer of a tab fires only
   when at least SAVE_DELAY has elapsed since that tab's most recent
   watched-field mutation; a mutation that finds a timer pending leaves
   exactly one timer, the new one, due SAVE_DELAY after the mutation; and no
   tab ever has more than one save timer pending. *)
C2_TrailingDebounce ==
    [][\A w \in Tabs :
          /\ Cardinality(win'[w].timers) <= 1
          /\ Storage_getDraft(localStorage') # Storage_getDraft(localStorage)
                => lastOp'.op = "saveDraftTimer"
          /\ (lastOp'.op = "saveDraftTimer" /\ lastOp'.tab = w)
                => /\ ~IsNull(mutatedAt[w])
                   /\ now - Val(mutatedAt[w]) >= SAVE_DELAY
          /\ (lastOp'.op \in MutationOps /\ lastOp'.tab = w)
                => /\ mutatedAt'[w] = Some(now)
                   /\ win'[w].timers = {[id |-> Val(win'[w].saveTimeout),
                                         due |-> now + SAVE_DELAY]}
      ]_vars

(* A mutation at 500 ms found the timer of an earlier mutation pending and
   replaced it by one due at 1500 ms *)
C2_Witness ==
    /\ lastOp.op = "edit"
    /\ lastOp.tab = "A"
    /\ lastOp.pre = 1
    /\ now = TickStep
    /\ mutatedAt["A"] = Some(TickStep)
    /\ \E tm \in win["A"].timers : tm.due = TickStep + SAVE_DELAY

-----------------------------------------------------------------------------
(* Properties of the auto-save, checked under SpecDebounceFair *)

PendingSave(w) == win[w].timers # {}

DraftHoldsCurrentValues(w) ==
    LET slot == Storage_getDraft(localStorage)
        current == DraftOf(win[w])
    IN  /\ ~IsNull(slot)
        /\ DOMAIN Val(slot) = DOMAIN current \cup {"savedAt"}
        /\ \A k \in DOMAIN current : Val(slot)[k] = current[k]
        /\ Val(slot).savedAt \in 0..now

(* C3: whenever a save is pending, the tab eventually is idle again (no save
   timer pending) with the draft slot holding the current business, client,
   invoice, items, discount, currency and taxRate and a savedAt timestamp. *)
C3_PendingSaveLeadsToSavedDraft ==
    \A w \in Tabs :
        PendingSave(w) ~> (~PendingSave(w) /\ DraftHoldsCurrentValues(w))

(* The timer fired after two edits and the draft holds both *)
C3_Witness ==
    /\ lastOp.op = "saveDraftTimer"
    /\ ~PendingSave("A")
    /\ win["A"].taxRate = Num(8)
    /\ Len(win["A"].items) = 2
    /\ Storage_getDraft(localStorage)
         = Some(Merge(DraftOf(win["A"]), [savedAt |-> now]))

-----------------------------------------------------------------------------
(* Properties of duplicateFromHistory, checked under SpecDup *)

DuplicatedSnapshot ==
    Storage_getHistoryItem(localStorage, lastOp'.pre)

MonetaryFieldsOfSnapshot ==
    LET snap == Val(DuplicatedSnapshot).data
        a == win'[lastOp'.tab]
    IN  /\ a.items = snap.items
        /\ a.discount = snap.discount
        /\ a.taxRate = snap.taxRate
        /\ a.currency = snap.currency

(* C8, as the claim states it: duplicateFromHistory(id) for an existing
   snapshot leaves items, discount, tax rate and currency equal to the
   snapshot's, and the resulting invoice number, issue date and due date all
   differ from the snapshot's. *)
C8_DuplicateNumberAndDatesAllDiffer ==
    [][(lastOp'.op = "duplicateFromHistory" /\ ~IsNull(DuplicatedSnapshot))
         => LET snap == Val(DuplicatedSnapshot).data
                a == win'[lastOp'.tab]
            IN  /\ MonetaryFieldsOfSnapshot
                /\ a.invoice.number # snap.invoice.number
                /\ a.invoice.date # snap.invoice.date
                /\ a.invoice.dueDate # snap.invoice.dueDate
      ]_vars

(* C8, amended: duplicateFromHistory(id) for an existing snapshot leaves
   items, discount, tax rate and currency equal to the snapshot's; the
   invoice number is a newly generated one for the current month, the issue
   date is today and the due date is 30 days after today, whatever the
   snapshot holds (so they may equal the snapshot's). *)
C8_DuplicateFromHistory ==
    [][(lastOp'.op = "duplicateFromHistory" /\ ~IsNull(DuplicatedSnapshot))
         => LET a == win'[lastOp'.tab]
            IN  /\ MonetaryFieldsOfSnapshot
                /\ a.invoice.number.txt = EmptyText
                /\ a.invoice.number.ym = today \div 30
                /\ a.invoice.number.rnd \in RandomDraws
                /\ a.invoice.date = <<today>>
                /\ a.invoice.dueDate = <<today + 30>>
      ]_vars

(* A snapshot of day 0 with two items, a fixed discount and a typed number
   was duplicated on day 1 *)
C8_Witness ==
    /\ lastOp.op = "duplicateFromHistory"
    /\ ~IsNull(Storage_getHistoryItem(localStorage, lastOp.pre))
    /\ today = 1
    /\ LET snap == Val(Storage_getHistoryItem(localStorage, lastOp.pre)).data
           a == win["A"]
       IN  /\ snap.invoice.date = <<0>>
           /\ snap.invoice.number.txt # EmptyText
           /\ a.invoice.date = <<1>>
           /\ a.invoice.dueDate = <<31>>
           /\ a.invoice.number.txt = EmptyText
           /\ Len(a.items) = 2
           /\ a.items = snap.items
           /\ a.discount.type = "fixed"
           /\ a.currency = "EUR"

-----------------------------------------------------------------------------
(* Properties of the draft round trip, checked under SpecRoundTrip *)

DraftFields ==
    {"business", "client", "invoice", "items", "discount", "currency", "taxRate"}

(* C10: saveDraft writes the model's seven fields as they are, and a fresh
   start (init on the default in-memory state) that finds a draft sets
   draftRestored and leaves business, client, invoice (number and due date
   included), items, discount, currency and taxRate equal to the draft's,
   whatever the preferences and the date of the restart. *)
C10_DraftRoundTrip ==
    [][/\ lastOp'.op = "saveDraftTimer"
          => /\ Storage_hasDraft(localStorage')
             /\ \A k \in DraftFields :
                   Val(Storage_getDraft(localStorage'))[k] = win[lastOp'.tab][k]
       /\ (lastOp'.op = "reload" /\ Storage_hasDraft(localStorage))
          => /\ win'[lastOp'.tab].draftRestored
             /\ \A k \in DraftFields :
                   win'[lastOp'.tab][k] = Val(Storage_getDraft(localStorage))[k]
      ]_vars

(* A reload on day 1 restored a draft of day 0 with a typed number, a cleared
   due date and a tax rate of 0 over stored preferences with a tax rate of 8 *)
C10_Witness ==
    /\ lastOp.op = "reload"
    /\ today = 1
    /\ win["A"].draftRestored
    /\ win["A"].invoice.date = <<0>>
    /\ win["A"].invoice.dueDate = Null
    /\ win["A"].invoice.number.txt # EmptyText
    /\ win["A"].business.name # EmptyText
    /\ win["A"].taxRate = Num(0)
    /\ Storage_getPreferences(localStorage).taxRate = Num(8)
    /\ Len(win["A"].items) = 2

-----------------------------------------------------------------------------
(* Properties of the export, checked under SpecExport *)

(* C11: a downloadPDF with an empty business name is refused: no generation
   is started (PDFGenerator.generating and isGeneratingPDF keep their values,
   so a flag that was false stays false), no field of the component changes
   and the store, the history with it, is left as it was. *)
C11_EmptyBusinessNameRefused ==
    [][\A w \in Tabs :
          (lastOp'.op = "downloadPDF" /\ lastOp'.tab = w
             /\ win[w].business.name = EmptyText)
          => /\ lastOp'.pre = 0
             /\ win'[w].pdfGenerating = win[w].pdfGenerating
             /\ win'[w].isGeneratingPDF = win[w].isGeneratingPDF
             /\ DraftOf(win'[w]) = DraftOf(win[w])
             /\ win'[w] = win[w]
             /\ Storage_getHistory(localStorage') = Storage_getHistory(localStorage)
             /\ localStorage' = localStorage
      ]_vars

(* Download was pressed with no business name, a client name and a described
   item, while nothing was being generated *)
C11_Witness ==
    /\ lastOp.op = "downloadPDF"
    /\ lastOp.pre = 0
    /\ win["A"].business.name = EmptyText
    /\ win["A"].client.name = <<"A", "c", "m", "e">>
    /\ win["A"].items[1].description = <<"A", "c", "m", "e">>
    /\ ~win["A"].isGeneratingPDF
    /\ ~win["A"].pdfGenerating

(* C12: a downloadPDF starts a generation only if the business name and the
   client name are present and some line item has a description that is not
   blank (not empty and not white space only). *)
C12_ExportOnlyWithDescribedItem ==
    [][\A w \in Tabs :
          (lastOp'.op = "downloadPDF" /\ lastOp'.tab = w /\ lastOp'.pre = 1)
          => /\ win[w].business.name # EmptyText
             /\ win[w].client.name # EmptyText
             /\ \E i \in 1..Len(win[w].items) :
                   \E k \in 1..Len(win[w].items[i].description) :
                       win[w].items[i].description[k] # " "
      ]_vars

-----------------------------------------------------------------------------
(* SpecItems: the line-item list.  A session in which a two-row invoice was
   typed and saved to the history; rows are added and removed, the invoice
   is loaded and duplicated from the history, New Invoice is pressed, the
   draft is saved by the timer and the page is reloaded. *)

InitItems ==
    /\ now = 1
    /\ today = 0
    /\ lastOp = Op("saveToHistory", "A")
    /\ mutatedAt = [NeverMutated EXCEPT !["A"] = Some(0)]
    /\ \E f \in {g \in FormFills :
                  /\ g.businessName # EmptyText /\ g.clientName # EmptyText
                  /\ IsNull(g.number) /\ g.dueDate = Some(DUE_DAYS)
                  /\ Len(g.items) = 2 /\ g.discountType = "percentage"
                  /\ g.taxRate = Num(0)} :
          LET out == saveToHistory(debouncedSaveDraft(FilledApp(EmptyStore, 7, f), 0),
                                   EmptyStore, 1, TRUE)
          IN  /\ localStorage = out.store
              /\ win = [IdleTabs EXCEPT !["A"] = out.app]

NextItems ==
    \/ AddItem("A")
    \/ RemoveItemAt("A")
    \/ NewInvoice("A")
    \/ LoadFromHistory("A")
    \/ DuplicateFromHistory("A")
    \/ Tick(SAVE_DELAY)
    \/ SaveTimerFires("A")
    \/ Reload("A")

SpecItems == InitItems /\ [][NextItems]_vars

(* C30: the line-item list always has at least one row; removeItem on a
   one-row list changes nothing, removeItem(i) on a longer list removes row i
   and keeps the other rows in their order, and addItem appends one blank
   row and keeps the rows before it. *)
C30_ItemsNeverEmptyNorReordered ==
    /\ [](\A w \in Tabs : Len(win[w].items) >= 1)
    /\ [][\A w \in Tabs :
            LET old == win[w].items
                new == win'[w].items
                i == lastOp'.pre
            IN  /\ (lastOp'.op = "removeItemAt" /\ lastOp'.tab = w) =>
                     IF Len(old) = 1 THEN win'[w] = win[w]
                     ELSE /\ Len(new) = Len(old) - 1
                          /\ \A k \in 1..Len(new) :
                                new[k] = IF k < i THEN old[k] ELSE old[k + 1]
                /\ (lastOp'.op = "addItem" /\ lastOp'.tab = w) =>
                     /\ Len(new) = Len(old) + 1
                     /\ new[Len(new)] = BlankItem
                     /\ \A k \in 1..Len(old) : new[k] = old[k]
        ]_vars

(* The first of the two rows of a restored draft was removed and its second
   row, the one with the emptied quantity, is the one that is left *)
C30_Witness ==
    /\ lastOp = OpPre("removeItemAt", "A", 1)
    /\ Len(win["A"].items) = 1
    /\ win["A"].items[1].quantity = Str(<<>>)
    /\ ~IsNull(Storage_getDraft(localStorage))
    /\ Len(Val(Storage_getDraft(localStorage)).items) = 2
    /\ Val(Storage_getDraft(localStorage)).items[2] = win["A"].items[1]

-----------------------------------------------------------------------------
(* Property of newInvoice with no edit after it, checked under SpecFresh *)

(* C29: once a confirmed newInvoice has returned and the user edits nothing
   afterwards, the Draft slot is empty, whatever timers fire.  Under
   SpecFresh the only writes to watched fields after instant 0 are those of
   a confirmed newInvoice, so a last write at a later instant is one. *)
C29_NoDraftAfterNewInvoice ==
    (~IsNull(mutatedAt["A"]) /\ Val(mutatedAt["A"]) >= 1)
        => Storage_getDraft(localStorage) = Null

-----------------------------------------------------------------------------
(* Properties of newInvoice, checked under SpecNew *)

(* C13: a newInvoice whose confirmation is declined changes nothing: the
   draft slot, every field of the component (the model, draftRestored, the
   loaded history, the timers) and the rest of the store are as before. *)
C13_DeclinedNewInvoiceChangesNothing ==
    [][(lastOp'.op = "newInvoice" /\ lastOp'.pre = 0)
         => /\ Storage_getDraft(localStorage') = Storage_getDraft(localStorage)
            /\ Storage_getHistory(localStorage') = Storage_getHistory(localStorage)
            /\ localStorage' = localStorage
            /\ win' = win
            /\ mutatedAt' = mutatedAt
      ]_vars

(* New Invoice was declined in a tab that had restored a draft of a filled
   form, with an entry in the history *)
C13_Witness ==
    /\ lastOp.op = "newInvoice"
    /\ lastOp.pre = 0
    /\ Storage_hasDraft(localStorage)
    /\ win["A"].draftRestored
    /\ win["A"].business.name # EmptyText
    /\ Len(win["A"].items) = 2
    /\ Len(Storage_getHistory(localStorage)) = 1

ResetByNewInvoice(a) ==
    /\ a.client = [name |-> <<>>, email |-> <<>>, address |-> <<>>]
    /\ a.items = <<[description |-> <<>>, quantity |-> Num(1), price |-> Num(0)]>>
    /\ a.discount = [type |-> "percentage", value |-> Num(0)]
    /\ a.taxRate = Num(0)
    /\ a.invoice.notes = <<>>
    /\ a.invoice.number.txt = <<>>
    /\ a.invoice.number.ym = today \div 30
    /\ a.invoice.number.rnd \in RandomDraws
    /\ a.invoice.date = <<today>>
    /\ a.invoice.dueDate = <<today + 30>>

BlankBusiness ==
    [name |-> <<>>, email |-> <<>>, phone |-> <<>>, address |-> <<>>, logo |-> <<>>]

(* C14, as the claim states it: a confirmed newInvoice clears the draft slot
   and leaves business and client blank, one blank item, discount percentage
   0, tax rate 0, the default currency, empty notes, a generated number,
   today as the issue date and today + 30 as the due date. *)
C14_NewInvoiceResetsAllFields ==
    [][(lastOp'.op = "newInvoice" /\ lastOp'.pre = 1)
         => /\ ~Storage_hasDraft(localStorage')
            /\ ResetByNewInvoice(win'[lastOp'.tab])
            /\ win'[lastOp'.tab].business = BlankBusiness
            /\ win'[lastOp'.tab].currency = "USD"
      ]_vars

(* C14, amended: a confirmed newInvoice clears the draft slot and resets
   client, items, discount, tax rate, notes, number and dates as claimed;
   the currency is left as it was, and business is blank unless the session
   is entitled and a business profile with a name is stored, in which case
   business is that profile. *)
C14_NewInvoice ==
    [][(lastOp'.op = "newInvoice" /\ lastOp'.pre = 1)
         => LET w == lastOp'.tab
                profile == Storage_getBusinessInfo(localStorage)
            IN  /\ ~Storage_hasDraft(localStorage')
                /\ ~win'[w].draftRestored
                /\ ResetByNewInvoice(win'[w])
                /\ win'[w].currency = win[w].currency
                /\ win'[w].business =
                      IF win[w].isPremium /\ profile.name # <<>>
                      THEN profile ELSE BlankBusiness
      ]_vars

(* New Invoice was confirmed on day 1 in a subscriber's tab that works in
   EUR and had restored a draft *)
C14_Witness ==
    /\ lastOp.op = "newInvoice"
    /\ lastOp.pre = 1
    /\ today = 1
    /\ win["A"].isPremium
    /\ win["A"].currency = "EUR"
    /\ win["A"].invoice.date = <<1>>
    /\ win["A"].invoice.dueDate = <<31>>
    /\ win["A"].items = <<BlankItem>>
    /\ ~win["A"].draftRestored
    /\ ~Storage_hasDraft(localStorage)
    /\ now > SAVE_DELAY

(* C16: the stored history is newest first.  In every state each entry's
   savedAt is not earlier than that of any entry after it; after an
   addToHistory the entry just added is at index 0, and after a
   removeFromHistory index 0 holds the first of the old entries that has
   another id, so the latest surviving entry stays at index 0. *)
C16_HistoryNewestFirst ==
    /\ [](LET h == Storage_getHistory(localStorage) IN
           \A i \in DOMAIN h : \A j \in DOMAIN h :
               i < j => h[i].savedAt >= h[j].savedAt)
    /\ [][LET h == Storage_getHistory(localStorage)
             hh == Storage_getHistory(localStorage')
         IN  /\ lastOp'.op = "addToHistory" =>
                     /\ hh[1].savedAt = now'
                     /\ \A j \in DOMAIN h : hh[1].savedAt > h[j].savedAt
             /\ lastOp'.op = "removeFromHistory" =>
                     LET kept == {j \in DOMAIN h : h[j].id # lastOp'.pre} IN
                     IF kept = {} THEN hh = <<>>
                     ELSE hh[1] = h[CHOOSE j \in kept : \A k \in kept : j <= k]
             /\ lastOp'.op = "clearHistory" => hh = <<>>
        ]_vars

(* The newest entry was removed from a history of three and the next one
   has taken index 0, ahead of the oldest *)
C16_Witness ==
    LET h == Storage_getHistory(localStorage) IN
    /\ lastOp.op = "removeFromHistory"
    /\ lastOp.pre = 3
    /\ now = 3
    /\ Len(h) = 2
    /\ h[1].savedAt = 2
    /\ h[2].savedAt = 1

-----------------------------------------------------------------------------
(* Properties of the snapshots, checked under SpecSnap *)

RemovingOps == {"deleteFromHistory", "clearAllHistory"}

(* C15: saveToHistory puts at the head of the stored history an entry whose
   data are the model's seven fields and its total, with the total and the
   currency of that moment; and in every step every other entry of the
   stored history is an entry that was there before, unchanged, while an
   entry disappears only by a delete, a clear or the eviction of the 50th. *)
C15_SnapshotsAreImmutable ==
    [][LET h == Storage_getHistory(localStorage)
           hh == Storage_getHistory(localStorage')
           saved == lastOp'.op = "saveToHistory"
       IN  /\ saved =>
                 LET a == win[lastOp'.tab] IN
                 /\ Len(hh) = Len(h) + 1
                 /\ \A k \in DraftFields : hh[1].data[k] = a[k]
                 /\ hh[1].data.total = subtotalAfterDiscount(a) + taxAmount(a)
                 /\ hh[1].total = hh[1].data.total
                 /\ hh[1].currency = a.currency
           /\ \A i \in 1..Len(hh) :
                 (saved /\ i = 1) \/ (\E j \in 1..Len(h) : h[j] = hh[i])
           /\ \A j \in 1..Len(h) :
                 \/ \E i \in 1..Len(hh) : hh[i] = h[j]
                 \/ lastOp'.op \in RemovingOps
                 \/ saved /\ j = 50 /\ Len(h) = 50
      ]_vars

(* A second snapshot was saved after the first was loaded and the tax rate
   edited: the first still holds the tax rate of its moment *)
C15_Witness ==
    LET h == Storage_getHistory(localStorage) IN
    /\ lastOp.op = "saveToHistory"
    /\ Len(h) = 2
    /\ h[1].data.taxRate = Num(0)
    /\ h[2].data.taxRate = Num(8)
    /\ h[1].id > h[2].id
    /\ h[1].currency = "EUR"
    /\ Storage_hasDraft(localStorage)

-----------------------------------------------------------------------------
(* Properties of the store under failures, checked under SpecFail *)

(* C17: a failure stays inside the store.  A set or remove that threw
   returned false and left every stored value as it was; a get of an
   unparsable item returned null; and with the item absent or unparsable
   getBusinessInfo returned the zero-valued profile and getHistory the empty
   list. *)
C17_FailuresStayInTheStore ==
    [][LET r == lastOp'.pre IN
       /\ (lastOp'.op \in {"Storage.set", "Storage.remove"} /\ ~r.ok) =>
              /\ r.returned = FALSE
              /\ localStorage' = localStorage
       /\ lastOp'.op = "Storage.get" =>
              /\ localStorage[r.key] = Unparsable => r.returned = <<>>
              /\ localStorage[STORAGE_KEYS.BUSINESS_INFO] \in {<<>>, Unparsable} =>
                     r.business = [name |-> <<>>, email |-> <<>>, phone |-> <<>>,
                                   address |-> <<>>, logo |-> <<>>]
              /\ localStorage[STORAGE_KEYS.HISTORY] \in {<<>>, Unparsable} =>
                     r.history = <<>>
      ]_vars

(* A write of the business profile threw over a stored profile, which is
   still there, while the history is unparsable *)
C17_Witness ==
    /\ lastOp.op = "Storage.set"
    /\ lastOp.pre.key = STORAGE_KEYS.BUSINESS_INFO
    /\ ~lastOp.pre.ok
    /\ localStorage[STORAGE_KEYS.BUSINESS_INFO] = Some(NamedBusiness)
    /\ localStorage[STORAGE_KEYS.HISTORY] = Unparsable

-----------------------------------------------------------------------------
(* Properties of the premium features, checked under SpecGate *)

GatedOps ==
    {"onCurrencyChange", "onTemplateChange", "saveBusinessInfo",
     "loadBusinessInfo", "handleLogoUpload"}

(* C18: in a session that is not entitled, onCurrencyChange with another
   currency than USD leaves the currency USD, onTemplateChange with another
   template than classic leaves the template, saveBusinessInfo leaves the
   stored profile, loadBusinessInfo leaves business and handleLogoUpload
   leaves the logo and starts no read; each leaves the whole store as it was
   and raises the pricing modal. *)
C18_GatedOperationsAreNoOps ==
    [][LET w == lastOp'.tab
           gated == /\ lastOp'.op \in GatedOps
                    /\ ~win[w].isPremium
                    /\ lastOp'.op = "onCurrencyChange" => lastOp'.pre # "USD"
                    /\ lastOp'.op = "onTemplateChange" => lastOp'.pre # "classic"
       IN  gated =>
             /\ localStorage' = localStorage
             /\ win'[w].showPricingModal
             /\ win'[w].currency = IF lastOp'.op = "onCurrencyChange"
                                   THEN "USD" ELSE win[w].currency
             /\ win'[w].template = win[w].template
             /\ win'[w].business = win[w].business
             /\ win'[w].logoReader = <<>>
      ]_vars

(* A former subscriber, whose stored preferences say EUR and modern, chose
   EUR again after USD: the currency is USD and the stored preferences are
   those the handler wrote for USD *)
C18_Witness ==
    /\ lastOp.op = "onCurrencyChange"
    /\ lastOp.pre = "EUR"
    /\ ~win["A"].isPremium
    /\ win["A"].showPricingModal
    /\ win["A"].currency = "USD"
    /\ win["A"].template = "modern"
    /\ win["A"].business.name # <<>>
    /\ Storage_getPreferences(localStorage).currency = "USD"
    /\ Storage_getBusinessInfo(localStorage).name # <<>>

-----------------------------------------------------------------------------
(* Properties of the usage limiter's callers, checked under SpecQuota *)

(* C25: canUsePrompt(true) returns true, canUsePrompt(false) returns true
   exactly when getRemainingPrompts() is above 0, and with incrementUsage
   called only after a canUsePrompt(false) that returned true the stored
   count never exceeds 3 and getRemainingPrompts() stays within 0..3. *)
C25_QuotaNeverExceeded ==
    /\ [](/\ AIPrompt_getUsage(localStorage).count <= 3
          /\ AIPrompt_getRemainingPrompts(localStorage, today) \in 0..3)
    /\ [][lastOp'.op = "canUsePrompt" =>
            lastOp'.pre.returned
              = (lastOp'.pre.premium \/ lastOp'.pre.remaining > 0)
        ]_vars

-----------------------------------------------------------------------------
(* Properties of two tabs over one store, checked under SpecTabs *)

(* C21: the last write wins.  Every save of a tab puts that tab's seven
   fields in the draft slot, whatever the slot held and whatever the other
   tab holds, and leaves the other tab as it was; so once both tabs have
   saved and neither has a save pending, the slot holds the fields of the
   tab whose save ran last. *)
C21_LastWriteWins ==
    /\ [][lastOp'.op = "saveDraftTimer" =>
            LET w == lastOp'.tab IN
            /\ Storage_getDraft(localStorage')
                  = Some(Merge(DraftOf(win[w]), [savedAt |-> now]))
            /\ \A o \in Tabs \ {w} : win'[o] = win[o]
        ]_vars
    /\ []((/\ lastOp.op = "saveDraftTimer"
           /\ \A w \in Tabs : ~PendingSave(w) /\ ~IsNull(win[w].lastSaved))
          => DraftHoldsCurrentValues(lastOp.tab))

(* Both tabs have saved, B last: the slot holds B's tax rate and invoice
   number, not A's *)
C21_Witness ==
    /\ lastOp = OpPre("saveDraftTimer", "B", 2 * SAVE_DELAY)
    /\ \A w \in Tabs : ~PendingSave(w) /\ ~IsNull(win[w].lastSaved)
    /\ win["A"].taxRate = Num(8)
    /\ win["B"].taxRate = Num(0)
    /\ win["A"].lastSaved = Some(2 * SAVE_DELAY)
    /\ Val(Storage_getDraft(localStorage)).taxRate = Num(0)
    /\ Val(Storage_getDraft(localStorage)).invoice = win["B"].invoice
    /\ win["A"].invoice # win["B"].invoice

-----------------------------------------------------------------------------
(* Properties of the exported document, checked under SpecPdf *)

(* The number of A4 pages an image of the given height in mm takes *)
PagesFor(imgHeight) ==
    IF imgHeight <= 297 THEN 1 ELSE (imgHeight + 296) \div 297

(* C22: downloadPDF passes addWatermark = true exactly when the session is
   not entitled, and a document saved for a generate call with addWatermark
   has the footer line once on every one of its pages, however many pages
   the pagination made; without addWatermark it has it on none. *)
C22_WatermarkOnEveryPage ==
    [][/\ (lastOp'.op = "downloadPDF" /\ lastOp'.pre = 1) =>
             win'[lastOp'.tab].pdfWatermark = ~win[lastOp'.tab].isPremium
       /\ (lastOp'.op = "pdfSettles" /\ lastOp'.pre > 0) =>
             LET w == lastOp'.tab
                 pdf == win'[w].download[1]
             IN  /\ Len(pdf) = PagesFor(lastOp'.pre)
                 /\ \A i \in 1..Len(pdf) :
                       pdf[i].footer = IF win[w].pdfWatermark THEN 1 ELSE 0
      ]_vars

(* The export of a session that is not entitled was saved with three pages *)
C22_Witness ==
    /\ lastOp = OpPre("pdfSettles", "A", 700)
    /\ ~win["A"].isPremium
    /\ win["A"].pdfWatermark
    /\ win["A"].showSuccessModal
    /\ Len(win["A"].download[1]) = 3
    /\ win["A"].download[1][3].footer = 1

(* C23: at most one generation is in progress, and exactly while the
   generating flag is set; a generate call made while the flag is set returns
   null and changes nothing, a downloadPDF made then saves nothing and starts
   nothing; when a generation ends, with a saved document or with an error,
   both flags are false; and a flag that is set is eventually cleared. *)
C23_OneGenerationAtATime ==
    /\ [](\A w \in Tabs :
            /\ win[w].renderings \in {0, 1}
            /\ win[w].pdfGenerating <=> win[w].renderings = 1
            /\ win[w].isGeneratingPDF => win[w].pdfGenerating)
    /\ [][LET w == lastOp'.tab IN
          /\ (lastOp'.op = "generate" /\ win[w].pdfGenerating) =>
                 lastOp'.pre = "null" /\ win'[w] = win[w]
          /\ (lastOp'.op = "downloadPDF" /\ win[w].pdfGenerating) =>
                 /\ win'[w].download = win[w].download
                 /\ win'[w].renderings = win[w].renderings
                 /\ win'[w].isGeneratingPDF = win[w].isGeneratingPDF
          /\ lastOp'.op = "pdfSettles" =>
                 ~win'[w].pdfGenerating /\ ~win'[w].isGeneratingPDF
         ]_vars
    /\ \A w \in Tabs :
          /\ win[w].pdfGenerating ~> ~win[w].pdfGenerating
          /\ win[w].isGeneratingPDF ~> ~win[w].isGeneratingPDF

(* A generate call was refused while the export of downloadPDF was being
   rendered, after an earlier rendering had ended with an error *)
C23_Witness ==
    /\ lastOp = OpPre("generate", "A", "null")
    /\ win["A"].isGeneratingPDF
    /\ win["A"].pdfGenerating
    /\ win["A"].download = <<>>
    /\ win["A"].showSuccessModal

(* C28: the success modal is raised only by the end of a generation that
   saved the document: not when the generation ended with an error, and not
   when generate returned null because another generation was running. *)
C28_SuccessOnlyWhenSaved ==
    [][\A w \in Tabs :
          (win'[w].showSuccessModal /\ ~win[w].showSuccessModal)
          => (lastOp'.op = "pdfSettles" /\ lastOp'.pre > 0)
      ]_vars

-----------------------------------------------------------------------------
(* Properties of the subscription record, checked under SpecSub *)

(* C19: every read of the subscription record for an entitlement decision
   (init's isPremium() and checkSubscriptionStatus()) made after the
   record's expiry reports not entitled and leaves the stored status
   'expired'; made no later than the expiry of an active record it reports
   entitled and leaves the store as it was. *)
C19_ExpiryCheckedOnEveryRead ==
    [][LET customer == localStorage[STORAGE_KEYS.PADDLE_CUSTOMER]
           byInit == lastOp'.op \in {"init", "reload"}
           reads == byInit \/ lastOp'.op = "checkSubscriptionStatus"
           entitled == IF byInit THEN win'[lastOp'.tab].isPremium ELSE lastOp'.pre
       IN  (reads /\ customer # <<>> /\ customer[1].expiresAt # <<>>) =>
             IF customer[1].expiresAt[1] < now
             THEN /\ ~entitled
                  /\ localStorage'[STORAGE_KEYS.PADDLE_CUSTOMER][1].status = "expired"
             ELSE customer[1].status = "active" =>
                  /\ entitled
                  /\ localStorage' = localStorage
      ]_vars

(* C27: a running session that is not entitled has currency 'USD' and
   template 'classic'. *)
C27_NonEntitledDefaults ==
    \A w \in Tabs :
        (win[w].running /\ ~win[w].isPremium) =>
            (win[w].currency = "USD" /\ win[w].template = "classic")

(* C26: isPremium() and checkSubscriptionStatus() return the same boolean
   for the stored record at the current time, in every state; and a
   checkSubscriptionStatus call returns what isPremium() returned before it
   and leaves a store for which isPremium() returns the same. *)
C26_EntitlementChecksAgree ==
    /\ [](LET check == checkSubscriptionStatus(localStorage, now, TRUE) IN
           /\ check.returned = isPremium(localStorage, now)
           /\ isPremium(check.store, now) = isPremium(localStorage, now))
    /\ [][lastOp'.op = "checkSubscriptionStatus" =>
            /\ lastOp'.pre = isPremium(localStorage, now)
            /\ isPremium(localStorage', now') = isPremium(localStorage, now)
        ]_vars

(* checkSubscriptionStatus found an active record past its expiry, returned
   false and stored the status expired *)
C26_Witness ==
    /\ lastOp = OpPre("checkSubscriptionStatus", "-", FALSE)
    /\ now = SAVE_DELAY + TickStep
    /\ localStorage[STORAGE_KEYS.PADDLE_CUSTOMER] # Null
    /\ localStorage[STORAGE_KEYS.PADDLE_CUSTOMER] # Unparsable
    /\ localStorage[STORAGE_KEYS.PADDLE_CUSTOMER][1].status = "expired"
    /\ localStorage[STORAGE_KEYS.PADDLE_CUSTOMER][1].expiresAt = <<SAVE_DELAY>>
    /\ win["A"].running
    /\ win["A"].isPremium

-----------------------------------------------------------------------------
(* Properties of the history's removals, checked under SpecSnap *)

(* The sequence h without its j-th entry *)
WithoutIndex(h, j) == SubSeq(h, 1, j - 1) \o SubSeq(h, j + 1, Len(h))

(* C20: a removeFromHistory(id) with an id the history holds removes exactly
   one entry, one with that id, and leaves the others as they were and in
   their order; with an unknown id it changes nothing; clearHistory leaves
   getHistory returning the empty list. *)
C20_RemoveExactlyOneEntry ==
    [][LET h == Storage_getHistory(localStorage)
           hh == Storage_getHistory(localStorage')
           id == lastOp'.pre
           hits == {j \in DOMAIN h : h[j].id = id}
       IN  /\ lastOp'.op \in {"deleteFromHistory", "removeFromHistory"} =>
                 IF hits = {} THEN hh = h
                 ELSE \E j \in hits : hh = WithoutIndex(h, j)
           /\ lastOp'.op \in {"clearAllHistory", "clearHistory"} => hh = <<>>
      ]_vars

(* C24: no two entries of the stored history have the same id *)
C24_HistoryIdsUnique ==
    LET h == Storage_getHistory(localStorage) IN
    \A i \in DOMAIN h : \A j \in DOMAIN h : i # j => h[i].id # h[j].id

=============================================================================
